---- MODULE Spec2Model ----
(***************************************************************************)
(* A model of the task/bundle execution framework of astra                 *)
(* (python/astra/base.py): parameter resolution, context building, the     *)
(* three-stage lifecycle with its stage timers, the status updater, and    *)
(* the instances made again from the rows of the store.                    *)
(***************************************************************************)
EXTENDS Integers, Sequences, FiniteSets, TLC

\* ------------------------------------------------------------------ bounds
\* The longest list or string value supplied to a parameter.
MaxLen == 3

\* ------------------------------------------------------------ python values
\* A value is tagged with its Python type; v holds the elements (the
\* characters of a string, the items of a list, the number itself).
NoValue == [t |-> "none", v |-> << >>]
IntValue == [t |-> "int", v |-> <<5>>]
ListOf(n) == [t |-> "list", v |-> [i \in 1..n |-> 10 * i]]
StrOf(n) == [t |-> "str", v |-> [i \in 1..n |-> 96 + i]]

Values == {IntValue} \cup {ListOf(n) : n \in 0..MaxLen} \cup {StrOf(n) : n \in 1..MaxLen}

\* try: length = len(value) / except: length = 1
PyLen(value) == IF value.t \in {"list", "str"} THEN Len(value.v) ELSE 1

\* isinstance(value, Iterable)
IsIterable(value) == value.t \in {"list", "str"}

\* value[i] with a 0-based index: an item of a list, a one-character string
PyIndex(value, i) ==
    IF value.t = "list" THEN [t |-> "int", v |-> <<value.v[i + 1]>>]
    ELSE [t |-> "str", v |-> <<value.v[i + 1]>>]

\* ------------------------------------------------------ parameter model
ParameterClasses == {"Parameter", "TupleParameter", "DictParameter"}
iterable_parameter_classes == {"TupleParameter", "DictParameter"}

\* Parameter.__init__: the attribute `default` exists only when given
Parameter(class, bundled, default) ==
    [class |-> class, bundled |-> bundled, default |-> default]

HasDefault(parameter) == parameter.default.t # "none"

\* inspect.getmembers returns the members sorted by name
ParamOrder == <<"a", "b">>
ParamNames == {ParamOrder[i] : i \in 1..Len(ParamOrder)}
ExtraName == "z"
OtherExtraName == "y"

\* The names of s in the order of ParamOrder, restricted to those in S
RECURSIVE OrderedFrom(_, _)
OrderedFrom(k, S) ==
    IF k > Len(ParamOrder) THEN << >>
    ELSE IF ParamOrder[k] \in S THEN <<ParamOrder[k]>> \o OrderedFrom(k + 1, S)
    ELSE OrderedFrom(k + 1, S)

\* ---------------------------------------------------- parse_parameters
\* first loop: (parameter, value, default, length) of every declared name
\* that is supplied or has a default; the others are missing
Missing_FirstOnly(expected, kw) ==
    LET all == {name \in DOMAIN expected :
                   name \notin DOMAIN kw /\ ~HasDefault(expected[name])}
    IN IF all = {} THEN {} ELSE {OrderedFrom(1, all)[1]}
Missing(expected, kw) ==
    {name \in DOMAIN expected :
        name \notin DOMAIN kw /\ ~HasDefault(expected[name])}

FirstPass(expected, kw) ==
    [name \in DOMAIN expected \ Missing(expected, kw) |->
        LET default == name \notin DOMAIN kw
            value == IF default THEN expected[name].default ELSE kw[name]
        IN [parameter |-> expected[name], value |-> value,
            default |-> default, length |-> PyLen(value)]]

\* the bundled-parameter check of the second loop
BundledViolation_NoExemption(p) ==
    /\ p.parameter.bundled
    /\ p.value.t # "str"
    /\ IsIterable(p.value)
    /\ p.length > 1
BundledViolation(p) ==
    /\ p.parameter.bundled
    /\ p.parameter.class \notin iterable_parameter_classes
    /\ p.value.t # "str"
    /\ IsIterable(p.value)
    /\ p.length > 1

\* the names whose length enters relevant_lengths
Relevant_CountsDefaults(p) ==
    /\ ~p.parameter.bundled
    /\ p.parameter.class \notin iterable_parameter_classes
    /\ p.value.t # "str"
Relevant(p) ==
    /\ ~p.parameter.bundled
    /\ ~p.default
    /\ p.parameter.class \notin iterable_parameter_classes
    /\ p.value.t # "str"

RelevantLengths(parameters) ==
    {parameters[name].length : name \in {n \in DOMAIN parameters : Relevant(parameters[n])}}

\* lengths = set(relevant_lengths.values()).difference({1})
BundleLengths_DropsZero(parameters) == RelevantLengths(parameters) \ {0, 1}
BundleLengths(parameters) == RelevantLengths(parameters) \ {1}

\* the third loop: whether a value is indexed per task or given as it is
Indexed_IgnoresDefault(p, bundle_size) ==
    /\ bundle_size > 1
    /\ p.length = bundle_size
    /\ ~p.parameter.bundled
    /\ p.parameter.class \notin iterable_parameter_classes
Indexed(p, bundle_size) ==
    /\ bundle_size > 1
    /\ p.length = bundle_size
    /\ ~p.default
    /\ ~p.parameter.bundled
    /\ p.parameter.class \notin iterable_parameter_classes

\* unexpected_parameters = set(kwargs.keys()) - set(parameters.keys())
Unexpected_FirstOnly(kw, parameters) ==
    LET all == DOMAIN kw \ DOMAIN parameters
    IN IF all = {} THEN {} ELSE {CHOOSE name \in all : TRUE}
Unexpected(kw, parameters) == DOMAIN kw \ DOMAIN parameters

Raised(exc, what, names) ==
    [exc |-> exc, what |-> what, names |-> names, bundle_size |-> 0,
     parsed |-> << >>]

parse_parameters(expected, kw) ==
    LET missing == Missing(expected, kw)
        parameters == FirstPass(expected, kw)
        unexpected == Unexpected(kw, parameters)
        offending == {n \in DOMAIN parameters : BundledViolation(parameters[n])}
        lengths == BundleLengths(parameters)
        bundle_size == IF lengths = {} THEN 1 ELSE CHOOSE l \in lengths : TRUE
    IN  IF missing # {} THEN Raised("TypeError", "missing", missing)
        ELSE IF unexpected # {} THEN Raised("TypeError", "unexpected", unexpected)
        ELSE IF offending # {}
            THEN Raised("TypeError", "bundled", {OrderedFrom(1, offending)[1]})
        ELSE IF Cardinality(lengths) > 1
            THEN Raised("ValueError", "mismatch", DOMAIN parameters)
        ELSE [exc |-> "", what |-> "", names |-> {}, bundle_size |-> bundle_size,
              parsed |-> [name \in DOMAIN parameters |->
                  [parameter |-> parameters[name].parameter,
                   value |-> parameters[name].value,
                   default |-> parameters[name].default,
                   length |-> parameters[name].length,
                   indexed |-> Indexed(parameters[name], bundle_size)]]]

\* ------------------------------------------------------------- the store
\* Status: a lookup-by-description table; only these rows exist
Statuses == {"created", "running", "completed", "failed-pre-execute",
             "failed-execute", "failed-post-execute"}
StatusDescriptions == Statuses \cup {"no-such-status"}

Stages == {"pre_execute", "execute", "post_execute"}

FailedStatus_AlwaysExecute(stage) == "failed-execute"
FailedStatus(stage) ==
    CASE stage = "pre_execute" -> "failed-pre-execute"
      [] stage = "execute" -> "failed-execute"
      [] stage = "post_execute" -> "failed-post-execute"

\* keys of context["timing"]
TimeKey(stage) ==
    CASE stage = "pre_execute" -> "time_pre_execute"
      [] stage = "execute" -> "time_execute"
      [] stage = "post_execute" -> "time_post_execute"
OverheadKey(stage) ==
    CASE stage = "pre_execute" -> "time_pre_execute_bundle_overhead"
      [] stage = "execute" -> "time_execute_bundle_overhead"
      [] stage = "post_execute" -> "time_post_execute_bundle_overhead"
PerTaskKey(stage) ==
    CASE stage = "pre_execute" -> "time_pre_execute_per_task"
      [] stage = "execute" -> "time_execute_per_task"
      [] stage = "post_execute" -> "time_post_execute_per_task"
ScalarKeys == {TimeKey(s) : s \in Stages} \cup {OverheadKey(s) : s \in Stages}
                  \cup {"time_total"}

\* the timing attributes of a Task object or row
NoTaskTiming ==
    [set |-> {}, time_pre_execute_task |-> 0, time_execute_task |-> 0,
     time_post_execute_task |-> 0, scalar |-> [k \in ScalarKeys |-> 0]]

\* __version__ of the framework that writes the rows, and the versions a
\* framework that reads them back may have
WrittenBy == "current"
Versions == {WrittenBy, "later"}

\* a Task as Task.create(name, parameters, version) leaves it; id is its
\* position in the table, completed is a timestamp (0 is NULL)
NewTask(parameters) ==
    [parameters |-> parameters, version |-> WrittenBy, status |-> "created",
     completed |-> 0, timing |-> NoTaskTiming]
NewBundle == [status |-> "created"]

\* ------------------------------------------------------------ the context
EmptyTiming ==
    [has |-> {}, scalar |-> [k \in ScalarKeys |-> 0],
     per_task |-> [s \in Stages |-> << >>]]

\* self.context = context or {}
EmptyContext ==
    [keys |-> {}, input_data_products |-> "None", tasks |-> << >>,
     bundle |-> 0, iterable |-> << >>, timing |-> EmptyTiming]

VARIABLES
    cls,          \* the Parameter members of the task class, by name
    kwargs,       \* the keywords given to TaskInstance.__init__
    input,        \* input_data_products given to __init__
    constructed,  \* "no", "ok", or "raised" once __init__ has run
    parsed,       \* what parse_parameters returned or raised
    origin,       \* how the instance was made: "new", or the classmethod or
                  \* the supplied context it was made from
    context,      \* self.context
    Task,         \* the Task table: a sequence of rows, id = index
    Bundle,       \* the Bundle table
    TaskBundle,   \* the TaskBundle table: pairs <<task id, bundle id>>
    taskObj,      \* the in-memory Task objects of the context, by id
    bundleObj,    \* the in-memory Bundle objects, by id
    frame,        \* the decorated call in progress and the stage body it is in
    steps,        \* what the call in progress (or the last call) has done
    outcome,      \* how the last call ended
    calls         \* the number of calls made on the instance

machine == <<context, Task, Bundle, TaskBundle, taskObj, bundleObj>>
vars == <<cls, kwargs, input, constructed, parsed, origin, context, Task, Bundle,
          TaskBundle, taskObj, bundleObj, frame, steps, outcome, calls>>

\* The mutable state the handlers work on, as one record
Cur ==
    [context |-> context, Task |-> Task, Bundle |-> Bundle,
     TaskBundle |-> TaskBundle, taskObj |-> taskObj, bundleObj |-> bundleObj]

Set(m) ==
    /\ context' = m.context
    /\ Task' = m.Task
    /\ Bundle' = m.Bundle
    /\ TaskBundle' = m.TaskBundle
    /\ taskObj' = m.taskObj
    /\ bundleObj' = m.bundleObj

\* self, as the handlers read it
Self == [bundle_size |-> parsed.bundle_size, parameters |-> parsed.parsed,
         input_data_products |-> input]

\* ------------------------------------------------- get_or_create_context
\* parameters[name] = value[i] if indexed else value
Snapshot_FirstItem(parameters, i) ==
    [name \in DOMAIN parameters |->
        IF parameters[name].indexed
        THEN PyIndex(parameters[name].value, 0)
        ELSE parameters[name].value]
Snapshot(parameters, i) ==
    [name \in DOMAIN parameters |->
        IF parameters[name].indexed
        THEN PyIndex(parameters[name].value, i)
        ELSE parameters[name].value]

\* get_or_create_data_products raises TypeError on an unknown input type
Resolvable_Anything(input_data_products) == TRUE
Resolvable(input_data_products) == input_data_products # "unresolvable"

\* the build: one Task row per index, a Bundle and its links when
\* bundle_size > 1, then self.context.update(context)
BuildContext(m, self) ==
    IF ~Resolvable(self.input_data_products) THEN [m |-> m, exc |-> "TypeError"]
    ELSE
      LET n == self.bundle_size
          base == Len(m.Task)
          rows == [i \in 1..n |-> NewTask(Snapshot(self.parameters, i - 1))]
          ids == [i \in 1..n |-> base + i]
          bid == IF n > 1 THEN Len(m.Bundle) + 1 ELSE 0
          ctx == [m.context EXCEPT
                    !.keys = @ \cup {"input_data_products", "tasks", "bundle", "iterable"},
                    !.input_data_products = self.input_data_products,
                    !.tasks = ids,
                    !.bundle = bid,
                    !.iterable = [i \in 1..n |->
                        [task |-> ids[i], parameters |-> rows[i].parameters]]]
      IN [m |-> [m EXCEPT
                   !.context = ctx,
                   !.Task = @ \o rows,
                   !.taskObj = [i \in 1..(base + n) |->
                                   IF i <= base THEN m.taskObj[i] ELSE rows[i - base]],
                   !.Bundle = IF n > 1 THEN Append(@, NewBundle) ELSE @,
                   !.bundleObj = IF n > 1 THEN Append(@, NewBundle) ELSE @,
                   !.TaskBundle = IF n > 1
                                  THEN @ \cup {<<ids[i], bid>> : i \in 1..n}
                                  ELSE @],
          exc |-> ""]

get_or_create_context_Rebuilds(m, self) == BuildContext(m, self)
get_or_create_context(m, self) ==
    IF "iterable" \in m.context.keys THEN [m |-> m, exc |-> ""]
    ELSE BuildContext(m, self)

\* the error of a store that fails on a write
StoreError == "OperationalError"

\* the writes of one build, in order: a Task.create per index, each in a
\* transaction of its own, then Bundle.create and a TaskBundle.create per task
\* when bundle_size > 1
WritesOf(bundle_size) == IF bundle_size > 1 THEN 2 * bundle_size + 1 ELSE bundle_size

\* how many of the writes of a bundle (its row, then its links) stay when the
\* store fails after `done` of them: none of them runs inside a transaction
BundleWritesKept_OneTransaction(done) == 0
BundleWritesKept(done) == done

\* the build on a store that fails on write number writes + 1: the writes
\* before it stay, and self.context.update(context) is not reached
BuildContextInterrupted(m, self, writes) ==
    LET n == self.bundle_size
        base == Len(m.Task)
        created == IF writes < n THEN writes ELSE n
        after == IF writes > n THEN BundleWritesKept(writes - n) ELSE 0
        rows == [i \in 1..created |-> NewTask(Snapshot(self.parameters, i - 1))]
        bid == Len(m.Bundle) + 1
    IN [m |-> [m EXCEPT
                 !.Task = @ \o rows,
                 !.taskObj = @ \o rows,
                 !.Bundle = IF after > 0 THEN Append(@, NewBundle) ELSE @,
                 !.bundleObj = IF after > 0 THEN Append(@, NewBundle) ELSE @,
                 !.TaskBundle = @ \cup {<<base + i, bid>> : i \in 1..(after - 1)}],
        exc |-> StoreError]

\* ---------------------------------------------------------- _update_status
RangeOf(seq) == {seq[i] : i \in 1..Len(seq)}

RECURSIVE SeqSum(_)
SeqSum(seq) == IF seq = << >> THEN 0 ELSE Head(seq) + SeqSum(Tail(seq))

\* tasks_where: None, or the ids of the tasks the expression selects
NoFilter == [given |-> FALSE, ids |-> {}]
Matches(tasks_where, id) == ~tasks_where.given \/ id \in tasks_where.ids

\* context.get("bundle", None) and context.get("tasks", [])
ContextBundle(ctx) == IF "bundle" \in ctx.keys THEN ctx.bundle ELSE 0
ContextTasks(ctx) == IF "tasks" \in ctx.keys THEN ctx.tasks ELSE << >>

\* the bundle branch: the bundle row and object, the selected task rows,
\* and every task object of the context
UpdateBundleStatus(m, status, tasks_where, now) ==
    LET bundle == ContextBundle(m.context)
        ids == RangeOf(ContextTasks(m.context))
        hit == {id \in ids : Matches(tasks_where, id)}
    IN [m |-> [m EXCEPT
                 !.Bundle = [@ EXCEPT ![bundle].status = status],
                 !.bundleObj = [@ EXCEPT ![bundle].status = status],
                 !.Task = [id \in DOMAIN @ |->
                              IF id \in hit
                              THEN [@[id] EXCEPT !.status = status, !.completed = now]
                              ELSE @[id]],
                 !.taskObj = [id \in DOMAIN @ |->
                              IF id \in ids
                              THEN [@[id] EXCEPT !.status = status, !.completed = now]
                              ELSE @[id]]],
        exc |-> "", ret |-> 1 + Cardinality(hit)]

\* the single-task branch: task.status = status; task.completed == completed
\* (a comparison); task.save() writes the object to its row
UpdateTaskStatus(m, status, description, now) ==
    LET id == ContextTasks(m.context)[1]
        obj == [m.taskObj[id] EXCEPT !.status = status]
    IN [m |-> [m EXCEPT !.taskObj = [@ EXCEPT ![id] = obj],
                        !.Task = [@ EXCEPT ![id] = obj]],
        exc |-> "", ret |-> 1]

_update_status_LooksUpLate(m, description, tasks_where, now) ==
    LET r == IF ContextBundle(m.context) # 0
             THEN UpdateBundleStatus(m, description, tasks_where, now)
             ELSE IF Len(ContextTasks(m.context)) # 1
             THEN [m |-> m, exc |-> "ValueError", ret |-> 0]
             ELSE UpdateTaskStatus(m, description, description, now)
    IN IF description \notin Statuses
       THEN [m |-> r.m, exc |-> "DoesNotExist", ret |-> 0]
       ELSE r
_update_status_FirstTask(m, description, tasks_where, now) ==
    IF description \notin Statuses
    THEN [m |-> m, exc |-> "DoesNotExist", ret |-> 0]
    ELSE IF ContextBundle(m.context) # 0
    THEN UpdateBundleStatus(m, description, tasks_where, now)
    ELSE IF Len(ContextTasks(m.context)) = 0
    THEN [m |-> m, exc |-> "ValueError", ret |-> 0]
    ELSE UpdateTaskStatus(m, description, description, now)
_update_status(m, description, tasks_where, now) ==
    IF description \notin Statuses
    THEN [m |-> m, exc |-> "DoesNotExist", ret |-> 0]
    ELSE IF ContextBundle(m.context) # 0
    THEN UpdateBundleStatus(m, description, tasks_where, now)
    ELSE IF Len(ContextTasks(m.context)) # 1
    THEN [m |-> m, exc |-> "ValueError", ret |-> 0]
    ELSE UpdateTaskStatus(m, description, description, now)

\* TaskInstance.update_status: with safe, a failure is logged and False returned
update_status_Unsafe(m, description, tasks_where, safe, now) ==
    _update_status(m, description, tasks_where, now)
update_status(m, description, tasks_where, safe, now) ==
    LET r == _update_status(m, description, tasks_where, now)
    IN IF safe /\ r.exc # "" THEN [m |-> r.m, exc |-> "", ret |-> 0] ELSE r

\* how many of the two updates of the bundle branch (the bundle row, then
\* the task rows) stay when the store fails after `done` of them: each runs
\* in a transaction of its own
StatusWritesKept_OneTransaction(done) == 0
StatusWritesKept(done) == done

\* the bundle branch on a store that fails on update number done + 1: the
\* bundle object is set once the bundle row is, the task objects never
UpdateBundleStatusInterrupted(m, status, done) ==
    LET bundle == ContextBundle(m.context)
    IN [m |-> IF StatusWritesKept(done) = 0 THEN m
              ELSE [m EXCEPT !.Bundle = [@ EXCEPT ![bundle].status = status],
                             !.bundleObj = [@ EXCEPT ![bundle].status = status]],
        exc |-> "OperationalError", ret |-> 0]

\* ---------------------------------------------------------- TaskStageTimer
\* __enter__: context.setdefault("timing", {}) and pop the stage's two keys
TimerEnter(m, stage) ==
    [m EXCEPT
       !.context.keys = @ \cup {"timing"},
       !.context.timing.has = @ \ {TimeKey(stage), OverheadKey(stage)},
       !.context.timing.scalar =
           [k \in ScalarKeys |->
               IF k \in {TimeKey(stage), OverheadKey(stage)} THEN 0 ELSE @[k]]]

\* set_internal_timing adding the stage's time onto time_total
set_internal_timing_AddsToTotal(m, stage, time_actual) ==
    LET t == m.context.timing
        time_per_task == IF PerTaskKey(stage) \in t.has THEN t.per_task[stage] ELSE <<0>>
        computed == OverheadKey(stage) \notin t.has
        overhead == IF computed THEN time_actual - SeqSum(time_per_task)
                    ELSE t.scalar[OverheadKey(stage)]
        total == IF computed THEN time_actual ELSE SeqSum(time_per_task) + overhead
        scalar == [t.scalar EXCEPT ![OverheadKey(stage)] = overhead,
                                   ![TimeKey(stage)] = total]
    IN [m EXCEPT
          !.context.keys = @ \cup {"timing"},
          !.context.timing.has = t.has \cup {OverheadKey(stage), TimeKey(stage), "time_total"},
          !.context.timing.scalar =
              [scalar EXCEPT !["time_total"] = t.scalar["time_total"] + total]]

\* set_internal_timing taking the elapsed time as the stage's time always
set_internal_timing_KeepsElapsed(m, stage, time_actual) ==
    LET t == m.context.timing
        time_per_task == IF PerTaskKey(stage) \in t.has THEN t.per_task[stage] ELSE <<0>>
        computed == OverheadKey(stage) \notin t.has
        overhead == IF computed THEN time_actual - SeqSum(time_per_task)
                    ELSE t.scalar[OverheadKey(stage)]
        scalar == [t.scalar EXCEPT ![OverheadKey(stage)] = overhead,
                                   ![TimeKey(stage)] = time_actual]
        time_total == scalar["time_pre_execute"] + scalar["time_execute"]
                         + scalar["time_post_execute"]
    IN [m EXCEPT
          !.context.keys = @ \cup {"timing"},
          !.context.timing.has = t.has \cup {OverheadKey(stage), TimeKey(stage), "time_total"},
          !.context.timing.scalar = [scalar EXCEPT !["time_total"] = time_total]]

set_internal_timing(m, stage, time_actual) ==
    LET t == m.context.timing
        time_per_task == IF PerTaskKey(stage) \in t.has THEN t.per_task[stage] ELSE <<0>>
        computed == OverheadKey(stage) \notin t.has
        overhead == IF computed THEN time_actual - SeqSum(time_per_task)
                    ELSE t.scalar[OverheadKey(stage)]
        total == IF computed THEN time_actual ELSE SeqSum(time_per_task) + overhead
        has == t.has \cup {OverheadKey(stage), TimeKey(stage)}
        scalar == [t.scalar EXCEPT ![OverheadKey(stage)] = overhead,
                                   ![TimeKey(stage)] = total]
        time_total == scalar["time_pre_execute"] + scalar["time_execute"]
                         + scalar["time_post_execute"]
    IN [m EXCEPT
          !.context.keys = @ \cup {"timing"},
          !.context.timing.has = has \cup {"time_total"},
          !.context.timing.scalar = [scalar EXCEPT !["time_total"] = time_total]]

\* __exit__ with the exception E that left the wrapped work ("" for none):
\* the exception that leaves the with-block, and the state it leaves
ReportFailure(m, stage, E, now) ==
    IF ~({"bundle", "tasks"} \subseteq m.context.keys)
    THEN [m |-> m, exc |-> "UnboundLocalError"]     \* description is not bound
    ELSE IF m.context.bundle = 0 /\ m.context.tasks = << >>
    THEN [m |-> m, exc |-> "IndexError"]            \* tasks[0]
    ELSE [m |-> update_status(m, FailedStatus(stage), NoFilter, TRUE, now).m,
          exc |-> E]

TimerExit(m, stage, time_actual, E, now) ==
    LET m1 == set_internal_timing(m, stage, time_actual)
    IN IF E = "" THEN [m |-> m1, exc |-> ""]
       ELSE ReportFailure(m1, stage, E, now)

\* ----------------------------------------------- decorate_pre_post_execute
\* the wrapper up to the call of f
StartStage_AlwaysDecorates(m, self, stage, decorate) ==
    LET r == IF m.context.keys = {} THEN get_or_create_context(m, self)
             ELSE [m |-> m, exc |-> ""]
    IN IF r.exc # "" THEN [m |-> r.m, exc |-> r.exc, timed |-> FALSE]
       ELSE [m |-> TimerEnter(r.m, stage), exc |-> "", timed |-> TRUE]
StartStage(m, self, stage, decorate) ==
    IF ~decorate THEN [m |-> m, exc |-> "", timed |-> FALSE]
    ELSE LET r == IF m.context.keys = {} THEN get_or_create_context(m, self)
                  ELSE [m |-> m, exc |-> ""]
         IN IF r.exc # "" THEN [m |-> r.m, exc |-> r.exc, timed |-> FALSE]
            ELSE [m |-> TimerEnter(r.m, stage), exc |-> "", timed |-> TRUE]

\* the wrapper from the end of f: E is the exception f raised, "" for none
EndStage(m, stage, timed, time_actual, E, now) ==
    IF ~timed THEN [m |-> m, exc |-> E]
    ELSE LET r == TimerExit(m, stage, time_actual, E, now)
         IN IF r.exc = ""
            THEN [m |-> [r.m EXCEPT !.context.keys = @ \cup {stage}], exc |-> ""]
            ELSE r

\* -------------------------------------------------------- decorate_execute
\* the execute stage of the wrapper, from the end of f
EndExecute(m, time_actual, E, now) ==
    IF E = ""
    THEN TimerExit([m EXCEPT !.context.keys = @ \cup {"execute"}],
                   "execute", time_actual, "", now)
    ELSE TimerExit(m, "execute", time_actual, E, now)

\* the per-task times written to the rows: timing.pop(key, default)
PerTaskOrDefault_NoDefault(timing, stage, bundle_size) ==
    IF PerTaskKey(stage) \in timing.has THEN timing.per_task[stage] ELSE << >>
PerTaskOrDefault(timing, stage, bundle_size) ==
    IF PerTaskKey(stage) \in timing.has THEN timing.per_task[stage]
    ELSE [i \in 1..bundle_size |-> 0]

\* item i of the loop, as far as it gets
TimedTask(obj, timing, pre, exe, post, i) ==
    IF Len(pre) < i THEN obj
    ELSE IF Len(exe) < i
    THEN [obj EXCEPT !.timing.set = @ \cup {"time_pre_execute_task"},
                     !.timing.time_pre_execute_task = pre[i]]
    ELSE IF Len(post) < i
    THEN [obj EXCEPT !.timing.set = @ \cup {"time_pre_execute_task", "time_execute_task"},
                     !.timing.time_pre_execute_task = pre[i],
                     !.timing.time_execute_task = exe[i]]
    ELSE [obj EXCEPT !.timing.set = @ \cup {"time_pre_execute_task", "time_execute_task",
                                           "time_post_execute_task"}
                                      \cup (timing.has \cap ScalarKeys),
                     !.timing.time_pre_execute_task = pre[i],
                     !.timing.time_execute_task = exe[i],
                     !.timing.time_post_execute_task = post[i],
                     !.timing.scalar = [k \in ScalarKeys |->
                         IF k \in timing.has THEN timing.scalar[k] ELSE @[k]]]

\* the timing write-back after post_execute, in one transaction
WriteBack(m, self) ==
    IF ~({"timing", "tasks"} \subseteq m.context.keys) THEN [m |-> m, exc |-> "KeyError"]
    ELSE
      LET timing == m.context.timing
          tasks == m.context.tasks
          pre == PerTaskOrDefault(timing, "pre_execute", self.bundle_size)
          exe == PerTaskOrDefault(timing, "execute", self.bundle_size)
          post == PerTaskOrDefault(timing, "post_execute", self.bundle_size)
          short == {i \in 1..Len(tasks) : Len(pre) < i \/ Len(exe) < i \/ Len(post) < i}
          last == IF short = {} THEN Len(tasks)
                  ELSE CHOOSE i \in short : \A j \in short : i <= j
          pos(id) == CHOOSE i \in 1..Len(tasks) : tasks[i] = id
          objs == [id \in DOMAIN m.taskObj |->
                     IF id \in RangeOf(tasks) /\ pos(id) <= last
                     THEN TimedTask(m.taskObj[id], timing, pre, exe, post, pos(id))
                     ELSE m.taskObj[id]]
      IN IF short = {}
         THEN [m |-> [m EXCEPT !.taskObj = objs,
                               !.Task = [id \in DOMAIN @ |->
                                   IF id \in RangeOf(tasks) THEN objs[id] ELSE @[id]]],
               exc |-> ""]
         ELSE [m |-> [m EXCEPT !.taskObj = objs], exc |-> "IndexError"]

\* except: log.exception(...); if raise_decorator_exceptions: raise
Propagated_Always(exc, raise_decorator_exceptions) == exc
Propagated(exc, raise_decorator_exceptions) ==
    IF raise_decorator_exceptions THEN exc ELSE ""

\* ---------------------------------------------------------------- calls
\* the switches a decorated call pops from its keywords, with their defaults
Switches ==
    [decorate : BOOLEAN, decorate_pre_execute : BOOLEAN,
     decorate_post_execute : BOOLEAN, raise_decorator_exceptions : BOOLEAN]
DefaultSwitches ==
    [decorate |-> TRUE, decorate_pre_execute |-> TRUE,
     decorate_post_execute |-> TRUE, raise_decorator_exceptions |-> FALSE]

\* frame: the call in progress, the stage whose body is running, whether a
\* stage timer is open around it, the time spent so far inside iterable()
\* and the number of loops over iterable() the body has made
Idle == [call |-> "", stage |-> "", timed |-> FALSE, sw |-> DefaultSwitches,
         iter_time |-> 0, loops |-> 0]
InBody(call, stage, timed, sw) ==
    [call |-> call, stage |-> stage, timed |-> timed, sw |-> sw,
     iter_time |-> 0, loops |-> 0]
\* outcome: the last call, its switches, how it ended (the exception that
\* left it, the value it returned), the stage whose body raised, if one did,
\* the arguments of a direct update_status call, for from_task and
\* from_bundle the strict flag and the version of the running framework, and
\* how the timing write-back of a decorated execute ended ("ok", or the
\* exception it raised), and the error of the store, if it failed during a
\* status update
NoOutcome == [call |-> "", sw |-> DefaultSwitches, result |-> "none", exc |-> "",
              raised |-> "", stage |-> "", timed |-> FALSE, value |-> "",
              description |-> "", tasks_where |-> NoFilter, safe |-> FALSE,
              strict |-> FALSE, running |-> WrittenBy, writeback |-> "",
              store |-> ""]

\* TaskInstance.__init__
Construct ==
    /\ constructed = "no"
    /\ LET r == parse_parameters(cls, kwargs)
       IN /\ parsed' = r
          /\ constructed' = IF r.exc = "" THEN "ok" ELSE "raised"
    /\ UNCHANGED <<cls, kwargs, input, origin, machine, frame, steps, outcome, calls>>

\* the number of calls a behaviour makes on the instance
MaxCalls == 2

CanCall == constructed = "ok" /\ frame = Idle /\ calls < MaxCalls

\* a direct call of get_or_create_context(): it returns self.context when
\* that has an iterable, and the dict it built otherwise
CallGetOrCreateContext ==
    /\ CanCall
    /\ LET r == get_or_create_context(Cur, Self)
       IN /\ Set(r.m)
          /\ outcome' = [NoOutcome EXCEPT !.call = "get_or_create_context",
                            !.result = IF r.exc = "" THEN "returned" ELSE "raised",
                            !.exc = r.exc,
                            !.value = IF r.exc # "" THEN ""
                                      ELSE IF "iterable" \in context.keys
                                      THEN "self.context" ELSE "context"]
    /\ steps' = << >>
    /\ calls' = calls + 1
    /\ UNCHANGED <<cls, kwargs, input, constructed, parsed, origin, frame>>

\* a direct call of get_or_create_context() during which the store fails
\* after `writes` writes
CallGetOrCreateContextInterrupted(writes) ==
    /\ CanCall
    /\ "iterable" \notin context.keys
    /\ Resolvable(input)
    /\ writes < WritesOf(parsed.bundle_size)
    /\ LET r == BuildContextInterrupted(Cur, Self, writes)
       IN /\ Set(r.m)
          /\ outcome' = [NoOutcome EXCEPT !.call = "get_or_create_context",
                            !.result = "raised", !.exc = r.exc]
    /\ steps' = << >>
    /\ calls' = calls + 1
    /\ UNCHANGED <<cls, kwargs, input, constructed, parsed, origin, frame>>

\* the number of loops over iterable() one stage body makes
MaxLoops == 1

\* the exception a stage's business logic raises
BodyError == "BusinessError"

Ended(call, sw, exc, raisedE, value) ==
    [call |-> call, sw |-> sw, result |-> IF exc = "" THEN "returned" ELSE "raised",
     exc |-> exc, raised |-> raisedE,
     stage |-> IF raisedE = "" THEN "" ELSE frame.stage,
     timed |-> raisedE # "" /\ frame.timed,
     value |-> IF exc = "" THEN value ELSE "",
     description |-> "", tasks_where |-> NoFilter, safe |-> FALSE,
     strict |-> FALSE, running |-> WrittenBy, writeback |-> "", store |-> ""]

\* the stage the execute wrapper runs after `stage` returned
StageAfter_SkipsExecute(stage) ==
    CASE stage = "pre_execute" -> "post_execute"
      [] stage = "execute" -> "post_execute"
      [] stage = "post_execute" -> "completed"
StageAfter(stage) ==
    CASE stage = "pre_execute" -> "execute"
      [] stage = "execute" -> "post_execute"
      [] stage = "post_execute" -> "completed"

Label(stage, what) ==
    CASE stage = "pre_execute" /\ what = "begin" -> "pre_execute:begin"
      [] stage = "pre_execute" /\ what = "return" -> "pre_execute:return"
      [] stage = "pre_execute" /\ what = "raise" -> "pre_execute:raise"
      [] stage = "execute" /\ what = "begin" -> "execute:begin"
      [] stage = "execute" /\ what = "return" -> "execute:return"
      [] stage = "execute" /\ what = "raise" -> "execute:raise"
      [] stage = "post_execute" /\ what = "begin" -> "post_execute:begin"
      [] stage = "post_execute" /\ what = "return" -> "post_execute:return"
      [] stage = "post_execute" /\ what = "raise" -> "post_execute:raise"

\* a decorated execute(**switches) call, up to the first stage body
CallExecute(sw) ==
    /\ CanCall
    /\ calls' = calls + 1
    /\ IF ~sw.decorate
       THEN /\ frame' = InBody("execute", "execute", FALSE, sw)
            /\ steps' = <<"execute:begin">>
            /\ outcome' = NoOutcome
            /\ UNCHANGED machine
       ELSE LET m1 == update_status(Cur, "running", NoFilter, TRUE, calls + 1)
                r == StartStage(m1.m, Self, "pre_execute", sw.decorate_pre_execute)
                running == IF m1.ret > 0 THEN "running:written" ELSE "running:failed"
            IN /\ Set(r.m)
               /\ IF r.exc # ""
                  THEN /\ frame' = Idle
                       /\ steps' = <<running>>
                       /\ outcome' = Ended("execute", sw, r.exc, "", "")
                  ELSE /\ frame' = InBody("execute", "pre_execute", r.timed, sw)
                       /\ steps' = <<running, "pre_execute:begin">>
                       /\ outcome' = NoOutcome
    /\ UNCHANGED <<cls, kwargs, input, constructed, parsed, origin>>

\* a direct call of pre_execute(decorate_pre_execute=d) or
\* post_execute(decorate_post_execute=d), up to the stage body
CallStage(stage, d) ==
    /\ CanCall
    /\ stage \in {"pre_execute", "post_execute"}
    /\ calls' = calls + 1
    /\ LET r == StartStage(Cur, Self, stage, d)
       IN /\ Set(r.m)
          /\ IF r.exc # ""
             THEN /\ frame' = Idle
                  /\ steps' = << >>
                  /\ outcome' = Ended(stage, DefaultSwitches, r.exc, "", "")
             ELSE /\ frame' = InBody(stage, stage, r.timed, DefaultSwitches)
                  /\ steps' = <<Label(stage, "begin")>>
                  /\ outcome' = NoOutcome
    /\ UNCHANGED <<cls, kwargs, input, constructed, parsed, origin>>

\* iterable(): time_<stage>_per_task[i] += t, or append when i is new
AddPerTask_Appends(per, k, t) == per \o [i \in 1..k |-> t]
AddPerTask(per, k, t) ==
    [i \in 1..(IF Len(per) > k THEN Len(per) ELSE k) |->
        IF i > k THEN per[i]
        ELSE IF i <= Len(per) THEN per[i] + t
        ELSE t]

\* the stage body loops over self.iterable() and resumes it k times, each
\* item taking t: the stage is the innermost stage function on the stack
Iterate(m, self, stage, k, t) ==
    LET m1 == [m EXCEPT !.context.keys = @ \cup {"timing"},
                        !.context.timing.has = @ \cup {PerTaskKey(stage)}]
        r == IF "iterable" \in m1.context.keys THEN [m |-> m1, exc |-> ""]
             ELSE get_or_create_context(m1, self)
    IN IF r.exc # "" THEN r
       ELSE [m |-> [r.m EXCEPT !.context.timing.per_task[stage] = AddPerTask(@, k, t)],
             exc |-> ""]

\* the end of a call: the exception that leaves it, if any
EndCall(m, exc, raisedE, value) ==
    /\ Set(m)
    /\ frame' = Idle
    /\ outcome' = Ended(frame.call, frame.sw, exc, raisedE, value)

\* the rest of the decorated call once the body of frame.stage has ended
\* after time_actual, E being the exception it raised ("" for none)
AfterBody(m, time_actual, E) ==
    LET stage == frame.stage
        sw == frame.sw
        now == calls
        mark == Label(stage, IF E = "" THEN "return" ELSE "raise")
    IN
    IF frame.call # "execute" \/ ~sw.decorate
    THEN \* a direct pre_execute/post_execute call, or the raw execute
         LET r == EndStage(m, stage, frame.timed, time_actual, E, now)
         IN /\ EndCall(r.m, r.exc, E, stage)
            /\ steps' = Append(steps, mark)
    ELSE IF E # ""
    THEN LET r == IF stage = "execute" THEN EndExecute(m, time_actual, E, now)
                  ELSE EndStage(m, stage, frame.timed, time_actual, E, now)
         IN /\ EndCall(r.m, r.exc, E, "")
            /\ steps' = Append(steps, mark)
    ELSE IF StageAfter(stage) = "execute"
    THEN LET r == EndStage(m, stage, frame.timed, time_actual, "", now)
         IN /\ Set(TimerEnter(r.m, "execute"))
            /\ frame' = InBody("execute", "execute", TRUE, sw)
            /\ outcome' = NoOutcome
            /\ steps' = steps \o <<mark, "execute:begin">>
    ELSE IF StageAfter(stage) = "post_execute"
    THEN LET r == EndExecute(m, time_actual, "", now)
             p == StartStage(r.m, Self, "post_execute", sw.decorate_post_execute)
         IN IF p.exc # ""
            THEN /\ EndCall(p.m, p.exc, "", "")
                 /\ steps' = Append(steps, mark)
            ELSE /\ Set(p.m)
                 /\ frame' = InBody("execute", "post_execute", p.timed, sw)
                 /\ outcome' = NoOutcome
                 /\ steps' = steps \o <<mark, "post_execute:begin">>
    ELSE LET r == EndStage(m, stage, frame.timed, time_actual, "", now)
             c == update_status(r.m, "completed", NoFilter, TRUE, now)
             w == WriteBack(c.m, Self)
             completed == IF c.ret > 0 THEN "completed:written" ELSE "completed:failed"
             left == Propagated(w.exc, sw.raise_decorator_exceptions)
         IN /\ Set(w.m)
            /\ frame' = Idle
            /\ outcome' = [Ended(frame.call, sw, left, "", "execute")
                               EXCEPT !.writeback = IF w.exc = "" THEN "ok" ELSE w.exc]
            /\ steps' = steps \o <<mark, completed>>

\* the stage body loops over self.iterable(); it leaves the loop early,
\* after k items, only where partial says so
BodyIterate(k, t, partial) ==
    /\ frame.call # ""
    /\ frame.loops < MaxLoops
    /\ LET r == Iterate(Cur, Self, frame.stage, k, t)
       IN IF r.exc # ""
          THEN /\ k = 0
               /\ AfterBody(r.m, frame.iter_time, r.exc)
          ELSE /\ k <= Len(r.m.context.iterable)
               /\ partial \/ k = Len(r.m.context.iterable)
               /\ Set(r.m)
               /\ frame' = [frame EXCEPT !.iter_time = @ + k * t, !.loops = @ + 1]
               /\ UNCHANGED <<steps, outcome>>
    /\ UNCHANGED <<cls, kwargs, input, constructed, parsed, origin, calls>>

\* the stage body returns, extra being the time it spent outside iterable()
BodyReturn(extra) ==
    /\ frame.call # ""
    /\ AfterBody(Cur, frame.iter_time + extra, "")
    /\ UNCHANGED <<cls, kwargs, input, constructed, parsed, origin, calls>>

\* the stage body raises
BodyRaise(extra) ==
    /\ frame.call # ""
    /\ AfterBody(Cur, frame.iter_time + extra, BodyError)
    /\ UNCHANGED <<cls, kwargs, input, constructed, parsed, origin, calls>>

\* the stage body stores an overhead of its own for the stage under the timer
BodyStoreOverhead(overhead) ==
    /\ frame.call # ""
    /\ frame.timed
    /\ OverheadKey(frame.stage) \notin context.timing.has
    /\ context' = [context EXCEPT
                     !.timing.has = @ \cup {OverheadKey(frame.stage)},
                     !.timing.scalar[OverheadKey(frame.stage)] = overhead]
    /\ UNCHANGED <<cls, kwargs, input, constructed, parsed, origin, Task, Bundle,
                   TaskBundle, taskObj, bundleObj, frame, steps, outcome, calls>>

\* the stage body removes the timing map from the context
BodyDropTiming ==
    /\ frame.call # ""
    /\ "timing" \in context.keys
    /\ context' = [context EXCEPT !.keys = @ \ {"timing"}, !.timing = EmptyTiming]
    /\ UNCHANGED <<cls, kwargs, input, constructed, parsed, origin, Task, Bundle,
                   TaskBundle, taskObj, bundleObj, frame, steps, outcome, calls>>

\* iterable() called outside the stages: no stage on the stack, no timing
CallIterable ==
    /\ CanCall
    /\ calls' = calls + 1
    /\ LET r == IF "iterable" \in context.keys THEN [m |-> Cur, exc |-> ""]
                ELSE get_or_create_context(Cur, Self)
       IN /\ Set(r.m)
          /\ outcome' = Ended("iterable", DefaultSwitches, r.exc, "", "iterable")
    /\ steps' = << >>
    /\ UNCHANGED <<cls, kwargs, input, constructed, parsed, origin, frame>>

\* a direct call of update_status(description, tasks_where, safe)
CallUpdateStatus(description, tasks_where, safe) ==
    /\ CanCall
    /\ calls' = calls + 1
    /\ tasks_where.given => tasks_where.ids \subseteq RangeOf(ContextTasks(context))
    /\ LET r == update_status(Cur, description, tasks_where, safe, calls + 1)
       IN /\ Set(r.m)
          /\ outcome' = [Ended("update_status", DefaultSwitches, r.exc, "",
                                    IF r.ret > 0 THEN "count" ELSE "False")
                             EXCEPT !.description = description,
                                    !.tasks_where = tasks_where, !.safe = safe]
    /\ steps' = << >>
    /\ UNCHANGED <<cls, kwargs, input, constructed, parsed, origin, frame>>

\* a direct call of update_status(description, safe=safe) on an instance with
\* a bundle, during which the store fails after `done` of the two updates
CallUpdateStatusInterrupted(description, done, safe) ==
    /\ CanCall
    /\ calls' = calls + 1
    /\ description \in Statuses
    /\ ContextBundle(context) # 0
    /\ LET r == UpdateBundleStatusInterrupted(Cur, description, done)
       IN /\ Set(r.m)
          /\ outcome' = [Ended("update_status", DefaultSwitches,
                                IF safe THEN "" ELSE r.exc, "", "False")
                             EXCEPT !.description = description, !.safe = safe,
                                    !.store = r.exc]
    /\ steps' = << >>
    /\ UNCHANGED <<cls, kwargs, input, constructed, parsed, origin, frame>>

\* --------------------------------------------------------- rehydration
\* The task-type registry resolves the name of a row of the store to the
\* class of the model. A behaviour
\* makes one more instance from the store, after the first one; calls, the
\* clock of the status updates, runs on over both instances.
CanRehydrate == constructed = "ok" /\ frame = Idle /\ origin = "new"

\* a context handed over without its "iterable" entry
SuppliedContext_NoIterable(ids, bundle, with_iterable) ==
    [EmptyContext EXCEPT
        !.keys = {"input_data_products", "tasks", "bundle"},
        !.tasks = ids,
        !.bundle = bundle]

\* the context handed to __init__ by from_task and from_bundle
SuppliedContext(ids, bundle, with_iterable) ==
    [EmptyContext EXCEPT
        !.keys = IF with_iterable
                 THEN {"input_data_products", "tasks", "bundle", "iterable"}
                 ELSE {"tasks", "bundle"},
        !.tasks = ids,
        !.bundle = bundle,
        !.iterable = IF with_iterable
                     THEN [i \in 1..Len(ids) |->
                             [task |-> ids[i], parameters |-> Task[ids[i]].parameters]]
                     ELSE << >>]

\* _get_task_instance_class: the version check on the row
check_version_NeverRaises(version, running, strict) ==
    IF version # running THEN "warn" ELSE "ok"
check_version(version, running, strict) ==
    IF version # running THEN (IF strict THEN "raise" ELSE "warn") ELSE "ok"

\* klass(input_data_products=..., context=context, **parameters): a second
\* instance, whose Task objects are the rows as loaded from the store
Rehydrate(how, kw, ctx, note) ==
    /\ LET r == parse_parameters(cls, kw)
       IN /\ parsed' = r
          /\ constructed' = IF r.exc = "" THEN "ok" ELSE "raised"
          /\ outcome' = [note EXCEPT
                            !.call = how,
                            !.result = IF r.exc = "" THEN "returned" ELSE "raised",
                            !.exc = r.exc]
    /\ kwargs' = kw
    /\ origin' = how
    /\ context' = ctx
    /\ taskObj' = [id \in DOMAIN taskObj |->
                      IF id \in RangeOf(ctx.tasks) THEN Task[id] ELSE taskObj[id]]
    /\ bundleObj' = [b \in DOMAIN bundleObj |->
                        IF b = ctx.bundle THEN Bundle[b] ELSE bundleObj[b]]
    /\ steps' = << >>
    /\ UNCHANGED <<cls, input, Task, Bundle, TaskBundle, frame, calls>>

\* the classmethod raises before it makes an instance
NoInstance(how, exc, note) ==
    /\ outcome' = [note EXCEPT !.call = how, !.result = "raised", !.exc = exc]
    /\ steps' = << >>
    /\ UNCHANGED <<cls, kwargs, input, constructed, parsed, origin, machine, frame, calls>>

\* the arguments of the classmethod, and whether it warned
Rehydration(strict, running, check) ==
    [NoOutcome EXCEPT !.strict = strict, !.running = running,
                      !.value = CASE check = "ok" -> "instance"
                                  [] check = "warn" -> "instance:warned"
                                  [] OTHER -> ""]

\* TaskInstance.from_task(task, strict), run by the framework version `running`
from_task(id, strict, running) ==
    /\ CanRehydrate
    /\ id \in DOMAIN Task
    /\ LET check == check_version(Task[id].version, running, strict)
           note == Rehydration(strict, running, check)
       IN IF check = "raise" THEN NoInstance("from_task", "RuntimeError", note)
          ELSE Rehydrate("from_task", Task[id].parameters,
                         SuppliedContext(<<id>>, 0, TRUE), note)

\* the tasks of a bundle, in the order of their ids
RECURSIVE TasksOf(_, _)
TasksOf(b, k) ==
    IF k > Len(Task) THEN << >>
    ELSE IF <<k, b>> \in TaskBundle THEN <<k>> \o TasksOf(b, k + 1)
    ELSE TasksOf(b, k + 1)

\* the first task's value in place of the list of all the tasks' values
ValuesOf_First(ids, name) == Task[ids[1]].parameters[name]

\* list_to_dict(...)[name]: the list of the tasks' values of one parameter.
\* The items of a list of the model are numbers; an item that is not a
\* number is kept as 0.
ValuesOf(ids, name) ==
    [t |-> "list",
     v |-> [i \in 1..Len(ids) |->
              LET value == Task[ids[i]].parameters[name]
              IN IF value.t = "int" THEN value.v[1] ELSE 0]]

\* TaskInstance.from_bundle(bundle, strict): the version checked is that of
\* bundle.tasks.first(), which is None for a bundle without tasks
from_bundle(b, strict, running) ==
    /\ CanRehydrate
    /\ b \in DOMAIN Bundle
    /\ LET ids == TasksOf(b, 1)
           bundle_size == Len(ids)
           check == IF ids = << >> THEN "none"
                    ELSE check_version(Task[ids[1]].version, running, strict)
           note == Rehydration(strict, running, check)
           parameters == [k \in DOMAIN Task[ids[1]].parameters |->
                            IF cls[k].bundled \/ bundle_size = 1
                            THEN Task[ids[1]].parameters[k]
                            ELSE ValuesOf(ids, k)]
       IN IF check = "none" THEN NoInstance("from_bundle", "AttributeError", note)
          ELSE IF check = "raise" THEN NoInstance("from_bundle", "RuntimeError", note)
          ELSE Rehydrate("from_bundle", parameters, SuppliedContext(ids, b, TRUE), note)

\* TaskInstance(context={"tasks": [...], "bundle": None}, **kwargs): a caller
\* hands the first k tasks of the store to __init__ as the context
ConstructWithContext(k) ==
    /\ CanRehydrate
    /\ k \in 1..Len(Task)
    /\ Rehydrate("context", kwargs, SuppliedContext([i \in 1..k |-> i], 0, FALSE),
                 NoOutcome)

\* ------------------------------------------------------ initial states
Defaults == {NoValue, IntValue, ListOf(2)}
Declarations ==
    {Parameter(c, b, d) : c \in ParameterClasses, b \in BOOLEAN, d \in Defaults}

\* any values for the declared names, with or without undeclared keywords
Keywords ==
    UNION {{d @@ x : d \in [S -> Values]} :
              S \in SUBSET ParamNames,
              x \in {[n \in E |-> IntValue] : E \in SUBSET {ExtraName, OtherExtraName}}}

InitRest ==
    /\ constructed = "no"
    /\ parsed = Raised("", "", {})
    /\ origin = "new"
    /\ context = EmptyContext
    /\ Task = << >>
    /\ Bundle = << >>
    /\ TaskBundle = {}
    /\ taskObj = << >>
    /\ bundleObj = << >>
    /\ frame = Idle
    /\ steps = << >>
    /\ outcome = NoOutcome
    /\ calls = 0

\* Any task class of two parameters, constructed with any keywords
InitParse ==
    /\ cls \in [ParamNames -> Declarations]
    /\ kwargs \in Keywords
    /\ input = "None"
    /\ InitRest

NextParse == Construct \/ CallGetOrCreateContext

SpecParse == InitParse /\ [][NextParse]_vars

\* The task class of the end-to-end example: a (default 1) and b (bundled,
\* default "x"), constructed with no keyword, with a = [] or with a list of
\* two values for a
ExampleClass ==
    [n \in ParamNames |->
        IF n = "a" THEN Parameter("Parameter", FALSE, IntValue)
        ELSE Parameter("Parameter", TRUE, StrOf(1))]
ExampleKeywords == {<< >>, [n \in {"a"} |-> ListOf(0)], [n \in {"a"} |-> ListOf(2)]}

Init ==
    /\ cls = ExampleClass
    /\ kwargs \in ExampleKeywords
    /\ input \in {"None", "unresolvable"}
    /\ InitRest

\* the switches given to execute(): with decorate=False the others are not read
SwitchesGiven ==
    {sw \in Switches :
        ~sw.decorate => (sw.decorate_pre_execute /\ sw.decorate_post_execute
                           /\ ~sw.raise_decorator_exceptions)}

\* The lifecycle with the clock standing still: every measured interval is 0,
\* and a body that loops over iterable() runs the loop to its end
Next ==
    \/ Construct
    \/ CallGetOrCreateContext
    \/ CallIterable
    \/ \E sw \in SwitchesGiven : CallExecute(sw)
    \/ \E stage \in {"pre_execute", "post_execute"}, d \in BOOLEAN : CallStage(stage, d)
    \/ \E k \in 0..MaxLen : BodyIterate(k, 0, FALSE)
    \/ BodyReturn(0)
    \/ BodyRaise(0)
    \/ \E d \in {"completed", "no-such-status"}, safe \in BOOLEAN :
          CallUpdateStatus(d, NoFilter, safe)

Spec == Init /\ [][Next]_vars

\* A class whose parameter a has a number or a list as its default, with b
\* bundled; constructed with no keyword or with a list of any length for a
StoreClasses ==
    {[n \in ParamNames |->
        IF n = "a" THEN Parameter("Parameter", FALSE, d)
        ELSE Parameter("Parameter", TRUE, StrOf(1))] : d \in {IntValue, ListOf(2)}}
StoreKeywords == {<< >>} \cup {[n \in {"a"} |-> ListOf(k)] : k \in 0..MaxLen}

InitStore ==
    /\ cls \in StoreClasses
    /\ kwargs \in StoreKeywords
    /\ input = "None"
    /\ InitRest

\* tasks_where: None, or an expression selecting the first k tasks
Filters == {NoFilter} \cup {[given |-> TRUE, ids |-> 1..k] : k \in 0..MaxLen}

\* Instances built, rehydrated from the store, and their status updated
NextStore ==
    \/ Construct
    \/ CallGetOrCreateContext
    \/ \E writes \in 0..(2 * MaxLen) : CallGetOrCreateContextInterrupted(writes)
    \/ \E id \in DOMAIN Task, strict \in BOOLEAN, running \in Versions :
          from_task(id, strict, running)
    \/ \E b \in DOMAIN Bundle, strict \in BOOLEAN, running \in Versions :
          from_bundle(b, strict, running)
    \/ \E k \in 1..Len(Task) : ConstructWithContext(k)
    \/ \E d \in {"running", "completed", "failed-execute", "no-such-status"},
          tasks_where \in Filters, safe \in BOOLEAN :
             CallUpdateStatus(d, tasks_where, safe)
    \/ \E done \in 0..1, safe \in BOOLEAN :
          CallUpdateStatusInterrupted("completed", done, safe)

SpecStore == InitStore /\ [][NextStore]_vars

\* the interval the clock measures for one item of a loop, and for the rest
\* of a stage body, in ticks of the clock
MaxTick == 1

\* a bundle of two tasks
InitTiming ==
    /\ cls = ExampleClass
    /\ kwargs = [n \in {"a"} |-> ListOf(2)]
    /\ input = "None"
    /\ InitRest

\* The decorated stages with the clock running: execute() as the first call
\* on the instance, and pre_execute() and post_execute() run directly, before
\* or after each other and again. A body may loop over iterable(), store an
\* overhead of its own, and return or raise.
NextTiming ==
    \/ Construct
    \/ calls = 0 /\ CallExecute(DefaultSwitches)
    \/ \E stage \in {"pre_execute", "post_execute"} : CallStage(stage, TRUE)
    \/ \E k \in 1..MaxLen : BodyIterate(k, MaxTick, FALSE)
    \/ BodyStoreOverhead(MaxTick + 1)
    \/ BodyReturn(MaxTick)
    \/ BodyRaise(MaxTick)

SpecTiming == InitTiming /\ [][NextTiming]_vars

\* Decorated execute() calls, with or without raise_decorator_exceptions and
\* decorate_post_execute, whose stage bodies may leave their loop over
\* iterable() early and may remove the timing map; the clock stands still
NextWriteBack ==
    \/ Construct
    \/ \E raise \in BOOLEAN, post \in BOOLEAN :
          CallExecute([DefaultSwitches EXCEPT !.raise_decorator_exceptions = raise,
                                              !.decorate_post_execute = post])
    \/ \E k \in 0..MaxLen : BodyIterate(k, 0, TRUE)
    \/ BodyDropTiming
    \/ BodyReturn(0)

SpecWriteBack == InitTiming /\ [][NextWriteBack]_vars

\* Decorated execute() calls, with or without raise_decorator_exceptions, of
\* a class whose execute and post_execute bodies loop over iterable(), to its
\* end or not, with the clock running
NextReconcile ==
    \/ Construct
    \/ \E raise \in BOOLEAN :
          CallExecute([DefaultSwitches EXCEPT !.raise_decorator_exceptions = raise])
    \/ \E k \in 1..MaxLen :
          frame.stage # "pre_execute" /\ BodyIterate(k, MaxTick, TRUE)
    \/ BodyReturn(MaxTick)

SpecReconcile == InitTiming /\ [][NextReconcile]_vars

\* An instance is built, a second one is made from the rows of the first by
\* from_task or from_bundle, and the second runs the lifecycle: decorated
\* execute(), the stages called directly, iterable() and
\* get_or_create_context(), with the clock running
NextRehydrated ==
    \/ Construct
    \/ CallGetOrCreateContext
    \/ \E id \in DOMAIN Task : from_task(id, FALSE, WrittenBy)
    \/ \E b \in DOMAIN Bundle : from_bundle(b, FALSE, WrittenBy)
    \/ origin # "new" /\ CallIterable
    \/ \E raise \in BOOLEAN :
          /\ origin # "new"
          /\ CallExecute([DefaultSwitches EXCEPT !.raise_decorator_exceptions = raise])
    \/ \E stage \in {"pre_execute", "post_execute"} :
          origin # "new" /\ CallStage(stage, TRUE)
    \/ \E k \in 1..MaxLen : BodyIterate(k, MaxTick, FALSE)
    \/ BodyReturn(MaxTick)
    \/ BodyRaise(MaxTick)

SpecRehydrated == InitStore /\ [][NextRehydrated]_vars

\* Any task class of two parameters constructed with any keywords, its
\* context built, and an instance made from a bundle of the store by a
\* framework of the version that wrote it or of a later one
NextRoundTrip ==
    \/ Construct
    \/ CallGetOrCreateContext
    \/ \E b \in DOMAIN Bundle, strict \in BOOLEAN, running \in Versions :
          from_bundle(b, strict, running)

SpecRoundTrip == InitParse /\ [][NextRoundTrip]_vars

\* ------------------------------------------- claims on parse_parameters
\* What the claims say of the inputs, stated on the class and the keywords
\* rather than on what parse_parameters computed.
Supplied == DOMAIN kwargs \cap ParamNames
Structured(n) == cls[n].class \in {"TupleParameter", "DictParameter"}
GivenValue(n) == IF n \in DOMAIN kwargs THEN kwargs[n] ELSE cls[n].default
GivenLength(n) == IF GivenValue(n).t = "int" THEN 1 ELSE Len(GivenValue(n).v)

\* the non-bundled, non-defaulted, non-structured parameters
Sized == {n \in Supplied : ~cls[n].bundled /\ ~Structured(n)}
SizedNonString == {n \in Sized : kwargs[n].t # "str"}

\* every parameter of S has length 1 or L, and one has length L
OneLength(S, L) ==
    /\ \A n \in S : GivenLength(n) \in {1, L}
    /\ \E n \in S : GivenLength(n) = L

BatchSizeIs(S) ==
    /\ \A L \in 2..(MaxLen + 1) : OneLength(S, L) => parsed.bundle_size = L
    /\ (\A n \in S : GivenLength(n) = 1) => parsed.bundle_size = 1

\* C7 as stated: the batch size is the one length other than 1 among the
\* non-bundled, non-defaulted, non-structured parameters, whether the sized
\* values are lists or strings; it is 1 when there is no such length.
C7_BatchSizeOfAnySizedValue == constructed = "ok" => BatchSizeIs(Sized)

\* C7 amended: the same, over the parameters whose value is not a string.
C7_BatchSizeOfNonStrings == constructed = "ok" => BatchSizeIs(SizedNonString)

C7_Witness ==
    /\ constructed = "ok"
    /\ parsed.bundle_size = 3
    /\ \E n \in SizedNonString : GivenLength(n) = 1 /\ kwargs[n].t = "list"
    /\ \E n \in Sized : kwargs[n].t = "list" /\ GivenLength(n) = 3

\* two parameters of S have distinct lengths, both different from 1
TwoLengths(S) ==
    \E n1, n2 \in S :
        /\ GivenLength(n1) # GivenLength(n2)
        /\ GivenLength(n1) # 1
        /\ GivenLength(n2) # 1

NoRows == Task = << >> /\ Bundle = << >> /\ TaskBundle = {}

BundledList(n) ==
    /\ cls[n].bundled
    /\ GivenValue(n).t = "list"
    /\ Len(GivenValue(n).v) > 1

NothingMissing == \A n \in ParamNames : n \in DOMAIN kwargs \/ cls[n].default.t # "none"

\* C9: a bundled plain parameter given a non-string iterable of more than
\* one item makes construction fail whatever the other parameters are; a
\* bundled TupleParameter or DictParameter given the same value is not
\* rejected for it, and construction succeeds when nothing else is wrong.
C9_BundledPlainListFails ==
    constructed # "no" =>
        /\ (\E n \in ParamNames : NothingMissing /\ BundledList(n) /\ ~Structured(n))
              => constructed = "raised"
        /\ parsed.what = "bundled" =>
              \A n \in parsed.names : BundledList(n) /\ ~Structured(n)
        /\ ( /\ NothingMissing
             /\ DOMAIN kwargs \subseteq ParamNames
             /\ \E n \in ParamNames : BundledList(n) /\ Structured(n)
             /\ \A n \in ParamNames :
                    (BundledList(n) /\ Structured(n)) \/ GivenValue(n).t = "int" )
              => constructed = "ok"

C9_Witness ==
    /\ constructed = "raised"
    /\ parsed.what = "bundled"
    /\ \E n \in ParamNames : BundledList(n) /\ ~Structured(n) /\ GivenLength(n) = 3
    /\ \E n \in ParamNames : BundledList(n) /\ Structured(n) /\ GivenLength(n) = 3

C9_WitnessAccepted ==
    /\ constructed = "ok"
    /\ \E n \in ParamNames : BundledList(n) /\ Structured(n) /\ GivenLength(n) = 3

\* C10: a resolved parameter is indexed exactly when the batch size exceeds
\* 1, its length equals the batch size, it was supplied (not defaulted), it
\* is not bundled and it is not a Tuple/Dict parameter.
C10_IndexedExactly ==
    constructed = "ok" =>
        \A n \in DOMAIN parsed.parsed :
            parsed.parsed[n].indexed <=>
                /\ parsed.bundle_size > 1
                /\ GivenLength(n) = parsed.bundle_size
                /\ n \in DOMAIN kwargs
                /\ ~cls[n].bundled
                /\ ~Structured(n)

\* one parameter is indexed; the other has the length of the batch too, but
\* is defaulted, bundled or structured, and is not indexed
C10_Witness ==
    /\ constructed = "ok"
    /\ parsed.bundle_size > 1
    /\ \E n1, n2 \in DOMAIN parsed.parsed :
          /\ parsed.parsed[n1].indexed
          /\ ~parsed.parsed[n2].indexed
          /\ GivenLength(n2) = parsed.bundle_size

\* -------------------------------------------------- claims on the lifecycle
\* the call in progress or the last call is a decorated execute() with
\* default switches
DefaultExecute ==
    \/ frame.call = "execute" /\ frame.sw = DefaultSwitches
    \/ frame = Idle /\ outcome.call = "execute" /\ outcome.sw = DefaultSwitches
ExecuteEnded(sw) == frame = Idle /\ outcome.call = "execute" /\ outcome.sw = sw

\* a step of the call, whether or not its status write went through
StepOf(label) ==
    CASE label \in {"running:written", "running:failed"} -> "running"
      [] label \in {"completed:written", "completed:failed"} -> "completed"
      [] OTHER -> label
StepsDone == [i \in 1..Len(steps) |-> StepOf(steps[i])]

LifecycleOrder ==
    <<"running", "pre_execute:begin", "pre_execute:return", "execute:begin",
      "execute:return", "post_execute:begin", "post_execute:return", "completed">>

IsPrefix(a, b) == Len(a) <= Len(b) /\ a = SubSeq(b, 1, Len(a))

\* the steps up to the begin of a stage, and then that stage raising
EndsInRaise(tr) ==
    /\ Len(tr) >= 2
    /\ IsPrefix(SubSeq(tr, 1, Len(tr) - 1), LifecycleOrder)
    /\ \E stage \in Stages :
          /\ tr[Len(tr) - 1] = Label(stage, "begin")
          /\ tr[Len(tr)] = Label(stage, "raise")

\* C1: a decorated execute() call with default switches does, in this
\* order and each at most once: the attempt to set 'running', pre_execute,
\* the execute body, post_execute, the write of 'completed'; a step starts
\* only when every stage before it returned, and a call that returns has
\* done them all.
C1_LifecycleOrder ==
    DefaultExecute =>
        /\ IsPrefix(StepsDone, LifecycleOrder) \/ EndsInRaise(StepsDone)
        /\ frame.call = "execute" =>
              StepsDone[Len(StepsDone)] = Label(frame.stage, "begin")
        /\ EndsInRaise(StepsDone) => frame = Idle /\ outcome.result = "raised"
        /\ (frame = Idle /\ outcome.result = "returned") => StepsDone = LifecycleOrder

C1_Witness ==
    /\ ExecuteEnded(DefaultSwitches)
    /\ outcome.result = "returned"
    /\ steps[1] = "running:failed"
    /\ steps[Len(steps)] = "completed:written"
    /\ context.bundle # 0

\* the status of the bundle, or of the one task of a context without bundle
HoldsBundleOrOneTask ==
    /\ {"bundle", "tasks"} \subseteq context.keys
    /\ context.bundle # 0 \/ Len(context.tasks) = 1
FailedName(stage) ==
    CASE stage = "pre_execute" -> "failed-pre-execute"
      [] stage = "execute" -> "failed-execute"
      [] stage = "post_execute" -> "failed-post-execute"
      [] OTHER -> "none"
StatusIs(status) ==
    IF context.bundle # 0
    THEN bundleObj[context.bundle].status = status /\ Bundle[context.bundle].status = status
    ELSE /\ taskObj[context.tasks[1]].status = status
         /\ Task[context.tasks[1]].status = status

\* C2: when the body of a stage raises inside its stage timer and the
\* context holds a bundle or exactly one task, the bundle (the task) has
\* status failed-<stage> when the call ends, and the exception that leaves
\* the decorated call is the one the body raised.
C2_StageFailureRecorded ==
    (frame = Idle /\ outcome.raised # "" /\ outcome.timed /\ HoldsBundleOrOneTask) =>
        /\ StatusIs(FailedName(outcome.stage))
        /\ outcome.result = "raised"
        /\ outcome.exc = outcome.raised

C2_Witness ==
    /\ frame = Idle
    /\ outcome.call = "execute"
    /\ outcome.raised = BodyError
    /\ outcome.stage = "post_execute"
    /\ outcome.exc = BodyError
    /\ context.bundle # 0
    /\ Bundle[context.bundle].status = "failed-post-execute"

\* C3: whatever the context holds, the exception that leaves a stage timer
\* whose wrapped work raised E is E itself.
C3_OriginalExceptionLeaves ==
    (frame = Idle /\ outcome.raised # "" /\ outcome.timed) =>
        outcome.exc = outcome.raised

\* the context has tasks, and they and their bundle have this status
TasksHaveStatus(status) ==
    /\ ContextTasks(context) # << >>
    /\ \A id \in RangeOf(ContextTasks(context)) : taskObj[id].status = status
    /\ ContextBundle(context) # 0 => bundleObj[context.bundle].status = status

Count(tr, step) == Cardinality({i \in 1..Len(tr) : tr[i] = step})
Before(tr, first, then) ==
    \A i \in 1..Len(tr) : tr[i] = then => \E j \in 1..(i - 1) : tr[j] = first

\* C4: when a decorated execute() call with default switches has ended,
\* the instance's tasks (and bundle) have status 'completed' exactly when
\* pre_execute, execute and post_execute all returned; 'completed' is
\* written at most once, and not before post_execute returned.
C4_CompletedIffAllReturned ==
    ExecuteEnded(DefaultSwitches) =>
        /\ TasksHaveStatus("completed") <=>
              Count(steps, "post_execute:return") = 1
        /\ Count(StepsDone, "completed") <= 1
        /\ Before(StepsDone, "post_execute:return", "completed")

\* C4, where the context holds tasks when the call ends: there the
\* equivalence holds.
C4_HoldsWhereTasksExist ==
    (ExecuteEnded(DefaultSwitches) /\ ContextTasks(context) # << >>) =>
        /\ TasksHaveStatus("completed") <=>
              Count(steps, "post_execute:return") = 1
        /\ Count(StepsDone, "completed") <= 1
        /\ Before(StepsDone, "post_execute:return", "completed")

\* C5: in a decorated execute() call, 'running' is entered exactly once and
\* the tasks have status 'running' when the body of pre_execute begins.
C5_RunningWhenPreExecuteBegins ==
    ( /\ frame.call = "execute"
      /\ frame.sw.decorate
      /\ frame.stage = "pre_execute"
      /\ frame.loops = 0 ) =>
        /\ Count(steps, "running:written") = 1
        /\ TasksHaveStatus("running")

FailedStatuses == {"failed-pre-execute", "failed-execute", "failed-post-execute"}

\* C6: once the status of a task or bundle is failed-<stage>, no operation
\* changes it.
C6_FailedIsTerminal ==
    [][ /\ \A id \in DOMAIN Task :
              /\ Task[id].status \in FailedStatuses => Task'[id].status = Task[id].status
              /\ taskObj[id].status \in FailedStatuses =>
                    taskObj'[id].status = taskObj[id].status
        /\ \A id \in DOMAIN Bundle :
              /\ Bundle[id].status \in FailedStatuses =>
                    Bundle'[id].status = Bundle[id].status
              /\ bundleObj[id].status \in FailedStatuses =>
                    bundleObj'[id].status = bundleObj[id].status ]_vars

\* ------------------------------- claims on the build and on the two errors
\* item i (counted from 1) of a supplied list or string
ItemOf(value, i) ==
    [t |-> IF value.t = "list" THEN "int" ELSE "str", v |-> <<value.v[i]>>]

Built == constructed = "ok" /\ "iterable" \in context.keys

\* C11: after get_or_create_context built the context of a new instance,
\* the parameters persisted on the i-th created task hold item i of the
\* value of every indexed parameter, and the whole supplied (or default)
\* value of every other parameter, for every index of the batch.
C11_SnapshotPerIndex ==
    Built =>
        /\ Len(context.tasks) = parsed.bundle_size
        /\ \A i \in 1..parsed.bundle_size : \A n \in ParamNames :
              Task[context.tasks[i]].parameters[n] =
                 IF parsed.parsed[n].indexed THEN ItemOf(GivenValue(n), i)
                 ELSE GivenValue(n)

C11_Witness ==
    /\ Built
    /\ parsed.bundle_size = 3
    /\ kwargs = [n \in ParamNames |-> IF n = "a" THEN ListOf(3) ELSE IntValue]
    /\ parsed.parsed["a"].indexed /\ ~parsed.parsed["b"].indexed
    /\ Task[context.tasks[3]].parameters =
          [n \in ParamNames |-> IF n = "a" THEN [t |-> "int", v |-> <<30>>] ELSE IntValue]

\* the declared names absent from the keywords, and the undeclared keywords
Absent == ParamNames \ DOMAIN kwargs
AbsentWithoutDefault == {n \in Absent : cls[n].default = NoValue}
Undeclared == DOMAIN kwargs \ ParamNames

\* C15: a declared parameter absent from the keywords takes its default;
\* when one or more absent parameters have no default, construction fails
\* with one TypeError that names every one of them.
C15_MissingReportedTogether ==
    constructed # "no" =>
        /\ AbsentWithoutDefault # {} =>
              /\ constructed = "raised"
              /\ parsed.exc = "TypeError" /\ parsed.what = "missing"
              /\ parsed.names = AbsentWithoutDefault
        /\ constructed = "ok" =>
              \A n \in Absent :
                  parsed.parsed[n].value = cls[n].default /\ parsed.parsed[n].default

C15_Witness ==
    /\ constructed = "raised"
    /\ parsed.what = "missing"
    /\ parsed.names = ParamNames
    /\ Absent = ParamNames

C15_WitnessDefault ==
    /\ constructed = "ok"
    /\ Absent = {"b"}
    /\ parsed.parsed["b"].value = ListOf(2)

\* C16 as stated: undeclared keywords make construction fail with one error
\* that names all of them, before any row is created.
C16_UndeclaredFail ==
    (constructed # "no" /\ Undeclared # {}) =>
        /\ constructed = "raised"
        /\ parsed.what = "unexpected"
        /\ parsed.names = Undeclared
        /\ NoRows

\* C16 amended: undeclared keywords make construction fail with one
\* TypeError before any row is created; it names all the undeclared
\* keywords when no required parameter is missing, and the missing
\* parameters otherwise.
C16_UndeclaredFailAfterMissing ==
    (constructed # "no" /\ Undeclared # {}) =>
        /\ constructed = "raised"
        /\ parsed.exc = "TypeError"
        /\ NoRows
        /\ IF AbsentWithoutDefault = {}
           THEN parsed.what = "unexpected" /\ parsed.names = Undeclared
           ELSE parsed.what = "missing" /\ parsed.names = AbsentWithoutDefault

C16_Witness ==
    /\ constructed = "raised"
    /\ parsed.what = "unexpected"
    /\ parsed.names = {ExtraName, OtherExtraName}
    /\ Supplied # {}

\* C13: once the context has an iterable, no call on the instance
\* (pre_execute, execute, post_execute, iterable, get_or_create_context,
\* update_status) changes the tasks, the bundle or the iterable of the
\* context or adds a Task, Bundle or link row, and a direct call of
\* get_or_create_context returns self.context.
C13_BuildIsIdempotent ==
    [][ "iterable" \in context.keys =>
          /\ "iterable" \in context'.keys
          /\ context'.tasks = context.tasks
          /\ context'.bundle = context.bundle
          /\ context'.iterable = context.iterable
          /\ Len(Task') = Len(Task)
          /\ Len(Bundle') = Len(Bundle)
          /\ TaskBundle' = TaskBundle
          /\ (calls' = calls + 1 /\ outcome'.call = "get_or_create_context") =>
                (outcome'.result = "returned" /\ outcome'.value = "self.context")
      ]_vars

\* a second call, of get_or_create_context, on a context built for a batch
\* of two
C13_Witness ==
    /\ calls = 2
    /\ outcome.call = "get_or_create_context"
    /\ outcome.value = "self.context"
    /\ parsed.bundle_size = 2
    /\ Len(Task) = 2 /\ Len(Bundle) = 1 /\ Cardinality(TaskBundle) = 2

\* C14: in the first call on a new instance whose batch is not empty and
\* whose inputs resolve, a decorated execute(), the context holds tasks
\* while the body of execute runs and when the call has returned, whatever
\* decorate_pre_execute is.
C14_ContextWhenExecuteRuns ==
    (calls = 1 /\ input = "None" /\ parsed.bundle_size > 0) =>
        /\ (frame.call = "execute" /\ frame.sw.decorate /\ frame.stage = "execute")
              => ContextTasks(context) # << >>
        /\ (ExecuteEnded(outcome.sw) /\ outcome.sw.decorate
                /\ outcome.result = "returned" /\ outcome.value = "execute")
              => ContextTasks(context) # << >>

\* C14 where pre_execute is decorated: there the context is built before
\* the body of pre_execute runs
C14_HoldsWithDecoratedPreExecute ==
    (calls = 1 /\ input = "None" /\ parsed.bundle_size > 0
        /\ frame.call = "execute" /\ frame.sw.decorate /\ frame.sw.decorate_pre_execute)
      => ContextTasks(context) # << >>

\* ------------------------------------- claims on the store (SpecStore)
TasksMatchBundleSize ==
    /\ Len(context.tasks) = parsed.bundle_size
    /\ context.bundle # 0 <=> parsed.bundle_size > 1

\* C12: on every instance whose context was built by get_or_create_context
\* or supplied by from_task or from_bundle, the context holds bundle_size
\* tasks, and it holds a bundle exactly when bundle_size > 1.
C12_TasksMatchBundleSize ==
    (Built /\ origin \in {"new", "from_task", "from_bundle"}) => TasksMatchBundleSize

\* C12 for the contexts of get_or_create_context, for from_task on a task
\* none of whose parameters is a list, and for from_bundle on a bundle of
\* more than one task (a build the store interrupted can leave a bundle
\* linked to one task only)
C12_HoldsWithoutListValues ==
    (/\ Built
     /\ origin = "from_task" => \A n \in DOMAIN kwargs : kwargs[n].t # "list"
     /\ origin = "from_bundle" => Len(context.tasks) > 1)
      => (origin # "context" => TasksMatchBundleSize)

\* a step that is a direct call of update_status, and its arguments
UpdateStep == calls' = calls + 1 /\ outcome'.call = "update_status"
UpdateSucceeded == outcome'.result = "returned" /\ outcome'.value = "count"
TasksBefore == RangeOf(ContextTasks(context))
Selected ==
    IF outcome'.tasks_where.given THEN TasksBefore \cap outcome'.tasks_where.ids
    ELSE TasksBefore
StatusKept(id) ==
    /\ Task'[id].status = Task[id].status
    /\ taskObj'[id].status = taskObj[id].status
TimestampKept(id) ==
    /\ Task'[id].completed = Task[id].completed
    /\ taskObj'[id].completed = taskObj[id].completed

\* C17: after a successful update_status on an instance with a bundle,
\* whatever tasks_where is, the status of the bundle object and of every
\* task object of the context equals the status of its row, and a task
\* that tasks_where leaves out keeps its status in memory and in the store.
C17_MemoryMirrorsStore ==
    [][ (UpdateStep /\ UpdateSucceeded /\ ContextBundle(context) # 0) =>
          /\ bundleObj'[context.bundle].status = Bundle'[context.bundle].status
          /\ \A id \in TasksBefore : taskObj'[id].status = Task'[id].status
          /\ \A id \in TasksBefore \ Selected : StatusKept(id)
      ]_vars

\* C17 where tasks_where leaves no task of the context out
C17_HoldsWhenNoTaskLeftOut ==
    [][ (UpdateStep /\ UpdateSucceeded /\ ContextBundle(context) # 0
            /\ Selected = TasksBefore) =>
          /\ bundleObj'[context.bundle].status = Bundle'[context.bundle].status
          /\ \A id \in TasksBefore : taskObj'[id].status = Task'[id].status
      ]_vars

\* C18: a successful update_status('completed') gives every task it
\* updates the timestamp of the call as its completion time, in the store
\* and in memory, with a bundle and with a single task.
C18_CompletedStampsEveryTask ==
    [][ (UpdateStep /\ UpdateSucceeded /\ outcome'.description = "completed") =>
          \A id \in Selected :
              Task'[id].completed = calls' /\ taskObj'[id].completed = calls'
      ]_vars

\* C18 on an instance with a bundle
C18_HoldsWithBundle ==
    [][ (UpdateStep /\ UpdateSucceeded /\ outcome'.description = "completed"
            /\ ContextBundle(context) # 0) =>
          \A id \in Selected :
              Task'[id].completed = calls' /\ taskObj'[id].completed = calls'
      ]_vars

\* C19: update_status with a description other than 'completed' leaves the
\* completion timestamp of every task as it was, in the store and in
\* memory, with a bundle and with a single task.
C19_OtherStatusKeepsTimestamp ==
    [][ (UpdateStep /\ outcome'.description # "completed") =>
          \A id \in DOMAIN Task : TimestampKept(id)
      ]_vars

\* C19 on an instance without a bundle
C19_HoldsWithoutBundle ==
    [][ (UpdateStep /\ outcome'.description # "completed"
            /\ ContextBundle(context) = 0) =>
          \A id \in DOMAIN Task : TimestampKept(id)
      ]_vars

\* C20: update_status(safe=False) on an instance without a bundle returns
\* only when the context holds exactly one task, and that task then has the
\* status asked for, in memory and in the store; with no task or more than
\* one task the call raises and no task changes status.
C20_OneTaskOrFailure ==
    [][ (UpdateStep /\ ~outcome'.safe /\ ContextBundle(context) = 0) =>
          /\ outcome'.result = "returned" =>
                /\ Len(ContextTasks(context)) = 1
                /\ taskObj'[context.tasks[1]].status = outcome'.description
                /\ Task'[context.tasks[1]].status = outcome'.description
          /\ Len(ContextTasks(context)) # 1 =>
                /\ outcome'.result = "raised"
                /\ \A id \in DOMAIN Task : StatusKept(id)
          /\ (Len(ContextTasks(context)) = 1 /\ outcome'.description \in Statuses)
                => outcome'.result = "returned"
      ]_vars

\* update_status('running') raised on a context of two tasks and no bundle
C20_Witness ==
    /\ outcome.call = "update_status" /\ ~outcome.safe
    /\ outcome.description = "running"
    /\ outcome.result = "raised" /\ outcome.exc = "ValueError"
    /\ ContextBundle(context) = 0
    /\ Len(ContextTasks(context)) = 2
    /\ \A id \in DOMAIN Task : Task[id].status = "created" /\ taskObj[id].status = "created"

C20_WitnessOneTask ==
    /\ outcome.call = "update_status" /\ ~outcome.safe
    /\ outcome.result = "returned"
    /\ ContextBundle(context) = 0
    /\ Len(ContextTasks(context)) = 1
    /\ Task[context.tasks[1]].status = "running"

C20_WitnessNoTask ==
    /\ outcome.call = "update_status" /\ ~outcome.safe
    /\ outcome.result = "raised" /\ outcome.exc = "ValueError"
    /\ ContextTasks(context) = << >>

\* the names of the rows of the Status table
KnownStatuses ==
    {"created", "running", "completed", "failed-pre-execute", "failed-execute",
     "failed-post-execute"}
BundleStatusKept ==
    \A b \in DOMAIN Bundle :
        Bundle'[b].status = Bundle[b].status /\ bundleObj'[b].status = bundleObj[b].status

\* C21: update_status(safe=False) with a name that is not the description
\* of a Status row raises, and leaves the status of every bundle and task
\* as it was, in the store and in memory.
C21_UnknownStatusFails ==
    [][ (UpdateStep /\ ~outcome'.safe /\ outcome'.description \notin KnownStatuses) =>
          /\ outcome'.result = "raised"
          /\ BundleStatusKept
          /\ \A id \in DOMAIN Task : StatusKept(id)
      ]_vars

\* an unknown name given for an instance with a bundle of two tasks
C21_Witness ==
    /\ outcome.call = "update_status" /\ ~outcome.safe
    /\ outcome.description = "no-such-status"
    /\ outcome.result = "raised" /\ outcome.exc = "DoesNotExist"
    /\ ContextBundle(context) # 0
    /\ Len(ContextTasks(context)) = 2
    /\ Bundle[context.bundle].status = "created"

\* what makes the update behind update_status fail
UpdateFails ==
    \/ outcome'.description \notin KnownStatuses
    \/ ContextBundle(context) = 0 /\ Len(ContextTasks(context)) # 1
    \/ outcome'.store # ""

\* C22: update_status(safe=True) never raises, whatever the context and the
\* name are: it returns False when the update fails, and the count the
\* update returned otherwise.
C22_SafeNeverRaises ==
    [][ (UpdateStep /\ outcome'.safe) =>
          /\ outcome'.result = "returned"
          /\ outcome'.exc = ""
          /\ outcome'.value = IF UpdateFails THEN "False" ELSE "count"
      ]_vars

\* a safe update on a context without task records returned False
C22_Witness ==
    /\ outcome.call = "update_status" /\ outcome.safe
    /\ outcome.description = "running"
    /\ outcome.result = "returned" /\ outcome.value = "False"
    /\ ContextTasks(context) = << >>

C22_WitnessUnknownStatus ==
    /\ outcome.call = "update_status" /\ outcome.safe
    /\ outcome.description = "no-such-status"
    /\ outcome.result = "returned" /\ outcome.value = "False"
    /\ ContextBundle(context) # 0

\* ------------------------------------------- claims on the switches
StoreKept ==
    /\ Task' = Task /\ taskObj' = taskObj
    /\ Bundle' = Bundle /\ bundleObj' = bundleObj
    /\ TaskBundle' = TaskBundle
\* the stage's own entries of the timing map, and whether they are there
StageTimes(timing, stage) ==
    [k \in {TimeKey(stage), OverheadKey(stage)} |->
        IF k \in timing.has THEN <<timing.scalar[k]>> ELSE << >>]
\* the body of the stage ended by itself, not inside a call of iterable()
OwnEnd == outcome'.raised \in {"", BodyError}

\* the step that begins execute(decorate=False), and the step that ends it
RawExecuteBegins ==
    calls' = calls + 1 /\ frame'.call = "execute" /\ ~frame'.sw.decorate
RawExecuteEnds ==
    frame.call = "execute" /\ ~frame.sw.decorate /\ frame' = Idle /\ OwnEnd
\* the step that ends the body of a stage the call was told not to decorate
RawStageEnds(stage) ==
    /\ frame.call = "execute" /\ frame.sw.decorate /\ frame.stage = stage
    /\ frame' # frame /\ frame'.stage # stage
    /\ OwnEnd
Undecorated(sw, stage) ==
    IF stage = "pre_execute" THEN ~sw.decorate_pre_execute
    ELSE ~sw.decorate_post_execute

\* C23: execute(decorate=False) runs the body of execute and nothing else:
\* no status is written, no other stage begins, no context is built and
\* no timing recorded, and the call returns what the body returned (or
\* raises what it raised). In a decorated execute() with
\* decorate_pre_execute=False or decorate_post_execute=False the body of
\* that stage runs once, without a stage timer, and when it ends the
\* stage's entries of the timing map are as they were; when it raises, its
\* exception leaves the call and no status is written for it.
C23_SwitchesDisableDecoration ==
    [][ /\ RawExecuteBegins =>
              /\ context' = context /\ StoreKept
              /\ steps' = <<"execute:begin">>
              /\ frame'.stage = "execute" /\ ~frame'.timed
        /\ RawExecuteEnds =>
              /\ context' = context /\ StoreKept
              /\ steps' \in {<<"execute:begin", "execute:return">>,
                             <<"execute:begin", "execute:raise">>}
              /\ outcome'.result = "returned" => outcome'.value = "execute"
              /\ outcome'.result = "raised" => outcome'.exc = BodyError
        /\ \A stage \in {"pre_execute", "post_execute"} :
              /\ (frame'.call = "execute" /\ frame'.sw.decorate
                    /\ frame'.stage = stage /\ frame.stage # stage
                    /\ Undecorated(frame'.sw, stage)) =>
                    /\ ~frame'.timed
                    /\ Count(steps', Label(stage, "begin")) = 1
                    /\ stage = "pre_execute" => context' = context
              /\ (RawStageEnds(stage) /\ Undecorated(frame.sw, stage)) =>
                    /\ StageTimes(context'.timing, stage) = StageTimes(context.timing, stage)
                    /\ (stage \in context'.keys) = (stage \in context.keys)
                    /\ outcome'.raised = BodyError =>
                          /\ outcome'.exc = BodyError
                          /\ context' = context /\ StoreKept
      ]_vars

\* execute(decorate=False) has returned on a new instance
C23_Witness ==
    /\ calls = 1
    /\ ExecuteEnded(outcome.sw) /\ ~outcome.sw.decorate
    /\ outcome.result = "returned" /\ outcome.value = "execute"
    /\ steps = <<"execute:begin", "execute:return">>
    /\ context = EmptyContext /\ NoRows

\* pre_execute raised in execute(decorate_pre_execute=False) on an instance
\* whose tasks exist: the tasks are 'running', not 'failed-pre-execute'
C23_WitnessRawPreExecute ==
    /\ ExecuteEnded(outcome.sw) /\ outcome.sw.decorate /\ ~outcome.sw.decorate_pre_execute
    /\ outcome.raised = BodyError /\ outcome.exc = BodyError
    /\ outcome.stage = "pre_execute"
    /\ TasksHaveStatus("running")

\* ------------------------------------- claims on a build that fails
NothingBuilt == context'.keys \cap {"tasks", "bundle", "iterable"} = {}

\* C25: with an input reference that cannot be resolved, every attempt to
\* build the context (a direct get_or_create_context or iterable call, or a
\* decorated stage called on an empty context) ends in the TypeError of the
\* resolution, which leaves the call; no stage timer is opened, no Task or
\* Bundle row is ever created, and the context never gets tasks or an
\* iterable.
C25_UnresolvableInputFailsBuild ==
    [][ input = "unresolvable" =>
          /\ Task' = << >> /\ Bundle' = << >> /\ TaskBundle' = {}
          /\ NothingBuilt
          /\ (calls' = calls + 1 /\ outcome'.call \in {"get_or_create_context", "iterable"}) =>
                /\ outcome'.result = "raised" /\ outcome'.exc = "TypeError"
                /\ context' = context
          /\ (calls' = calls + 1 /\ context.keys = {}
                /\ outcome'.call # "update_status") =>
                /\ ~frame'.timed
                /\ frame' = Idle =>
                      /\ outcome'.result = "raised" /\ outcome'.exc = "TypeError"
                      /\ context' = context
      ]_vars

\* a direct call of get_or_create_context raised the TypeError
C25_Witness ==
    /\ input = "unresolvable"
    /\ outcome.call = "get_or_create_context"
    /\ outcome.result = "raised" /\ outcome.exc = "TypeError"
    /\ context = EmptyContext /\ NoRows

\* execute() on a new instance raised it from the wrapper of pre_execute
C25_WitnessExecute ==
    /\ input = "unresolvable"
    /\ calls = 1
    /\ ExecuteEnded(DefaultSwitches)
    /\ outcome.exc = "TypeError" /\ outcome.raised = ""
    /\ context = EmptyContext /\ NoRows

\* ------------------------------------------------------------------- C26
Rehydrated == outcome.call \in {"from_task", "from_bundle"}
VersionDiffers == outcome.running # WrittenBy

\* C26: rehydrating from a Task or a Bundle whose version differs from that
\* of the running framework raises RuntimeError and makes no instance when
\* strict is true, and makes an instance after a warning when strict is
\* false; with equal versions it makes an instance, without a warning, for
\* either value of strict. (A bundle without tasks has no version to check.)
C26_VersionStrictness ==
    (Rehydrated /\ outcome.exc # "AttributeError") =>
        IF VersionDiffers /\ outcome.strict
        THEN /\ outcome.result = "raised"
             /\ outcome.exc = "RuntimeError"
             /\ origin = "new"
        ELSE /\ outcome.result = "returned"
             /\ constructed = "ok"
             /\ origin = outcome.call
             /\ outcome.value = IF VersionDiffers THEN "instance:warned" ELSE "instance"

C26_Witness ==
    /\ Rehydrated
    /\ VersionDiffers
    /\ outcome.strict
    /\ outcome.exc = "RuntimeError"

C26_WitnessWarned ==
    /\ outcome.call = "from_bundle"
    /\ VersionDiffers
    /\ ~outcome.strict
    /\ outcome.value = "instance:warned"

C26_WitnessSameVersion ==
    /\ outcome.call = "from_task"
    /\ ~VersionDiffers
    /\ outcome.strict
    /\ outcome.value = "instance"

\* ------------------------------------------------------------------- C27
LinkedTo(b) == {id \in DOMAIN Task : <<id, b>> \in TaskBundle}

\* C27: bundle creation is atomic: whenever the first instance has ended a
\* get_or_create_context, normally or by a failure of the store, every
\* Bundle row there is is linked to all bundle_size tasks of its build
C27_BundleLinkedToAllTasks ==
    origin = "new" =>
        \A b \in DOMAIN Bundle : Cardinality(LinkedTo(b)) = parsed.bundle_size

\* without a failure of the store the bundle of a context is linked to
\* exactly the tasks of that context
C27_HoldsAfterCompleteBuild ==
    (Built /\ origin = "new" /\ context.bundle # 0) =>
        LinkedTo(context.bundle) = RangeOf(context.tasks)

\* a failure while linking leaves a bundle with some of its tasks
C27_WitnessPartlyLinked ==
    /\ outcome.call = "get_or_create_context"
    /\ outcome.exc = StoreError
    /\ \E b \in DOMAIN Bundle :
          /\ LinkedTo(b) # {}
          /\ Cardinality(LinkedTo(b)) < parsed.bundle_size

\* ------------------------------------------------------------------- C24
\* the last call was a decorated execute() whose three stage bodies returned
\* and whose timing write-back raised
WriteBackFailed == outcome.call = "execute" /\ outcome.writeback \notin {"", "ok"}
ContextRowsCompleted ==
    /\ \A id \in RangeOf(ContextTasks(context)) : Task[id].status = "completed"
    /\ ContextBundle(context) # 0 => Bundle[ContextBundle(context)].status = "completed"

\* C24: when the three stages succeed and the timing write-back fails, the
\* decorated execute() returns the result of the execute body if
\* raise_decorator_exceptions is unset and raises the write-back's exception
\* if it is set; either way the status written before stays 'completed'
C24_WriteBackFailureSwallowed ==
    WriteBackFailed =>
        /\ IF outcome.sw.raise_decorator_exceptions
           THEN outcome.result = "raised" /\ outcome.exc = outcome.writeback
           ELSE outcome.result = "returned" /\ outcome.value = "execute"
        /\ "completed:written" \in RangeOf(steps)
        /\ ContextRowsCompleted

C24_Witness ==
    /\ WriteBackFailed
    /\ ~outcome.sw.raise_decorator_exceptions
    /\ outcome.writeback = "IndexError"
    /\ outcome.result = "returned"
    /\ Len(context.tasks) = 2
    /\ ContextRowsCompleted

C24_WitnessPropagated ==
    /\ WriteBackFailed
    /\ outcome.sw.raise_decorator_exceptions
    /\ outcome.exc = "IndexError"
    /\ ContextRowsCompleted

\* the timing map is absent when the write-back reads it
C24_WitnessNoTimingMap ==
    /\ WriteBackFailed
    /\ ~outcome.sw.raise_decorator_exceptions
    /\ "timing" \notin context.keys
    /\ outcome.writeback = "KeyError"
    /\ outcome.result = "returned"
    /\ Len(context.tasks) = 2
    /\ ContextRowsCompleted

\* whatever made the write-back fail, its exception leaves the call exactly
\* when raise_decorator_exceptions is set
C24_HoldsForAnyWriteBackFailure ==
    WriteBackFailed =>
        IF outcome.sw.raise_decorator_exceptions
        THEN outcome.result = "raised" /\ outcome.exc = outcome.writeback
        ELSE outcome.result = "returned" /\ outcome.value = "execute"

\* ------------------------------------------ claims on the timing map
\* timing.get(key, 0) and timing.get(time_<stage>_per_task, [])
TimeOf(timing, key) == IF key \in timing.has THEN timing.scalar[key] ELSE 0
PerTaskOf(timing, stage) ==
    IF PerTaskKey(stage) \in timing.has THEN timing.per_task[stage] ELSE << >>

\* a step in which the timer of `stage` exits: the body it is around ends
TimerExits(stage) ==
    /\ frame.call # ""
    /\ frame.timed
    /\ frame.stage = stage
    /\ frame' = Idle \/ frame'.stage # stage

\* the entries of a stage hold this attempt only: the per-task times add up
\* to the time this body spent in its loop, and so does the stage's time
\* less its overhead
OnlyThisAttempt(stage) ==
    /\ SeqSum(PerTaskOf(context'.timing, stage)) = frame.iter_time
    /\ TimeOf(context'.timing, TimeKey(stage))
          - TimeOf(context'.timing, OverheadKey(stage)) = frame.iter_time

\* C28: when a stage timer exits, time_<stage>, time_<stage>_bundle_overhead
\* and time_<stage>_per_task hold nothing of an earlier attempt at the stage
C28_NoResidueOfEarlierAttempt ==
    [][\A stage \in Stages : TimerExits(stage) => OnlyThisAttempt(stage)]_vars

\* C28 for a stage none of whose attempts so far looped over iterable()
C28_HoldsWithoutEarlierLoop ==
    [][\A stage \in Stages :
          (TimerExits(stage) /\ PerTaskOf(context.timing, stage) = << >>)
             => OnlyThisAttempt(stage)]_vars

\* pre_execute has run twice, looping both times, and the per-task times of
\* the second exit are those of both attempts
C28_WitnessResidue ==
    /\ calls = 2
    /\ frame = Idle
    /\ outcome.call = "pre_execute"
    /\ outcome.result = "returned"
    /\ context.timing.per_task["pre_execute"] = <<2 * MaxTick, 2 * MaxTick>>

\* ------------------------------------------------------------------- C29
StageTimeSum(timing) ==
    TimeOf(timing, "time_pre_execute") + TimeOf(timing, "time_execute")
       + TimeOf(timing, "time_post_execute")

\* C29: when a stage timer exits, whichever stages have run before and in
\* whatever order, time_total is the sum of the time_<stage> there are
C29_TotalIsSumOfStages ==
    [][(\E stage \in Stages : TimerExits(stage)) =>
          /\ "time_total" \in context'.timing.has
          /\ context'.timing.scalar["time_total"] = StageTimeSum(context'.timing)]_vars

\* the three stages have run, each with a time of its own
C29_Witness ==
    /\ frame = Idle
    /\ outcome.call = "execute"
    /\ outcome.result = "returned"
    /\ {TimeKey(s) : s \in Stages} \subseteq context.timing.has
    /\ context.timing.scalar["time_pre_execute"] = MaxTick
    /\ context.timing.scalar["time_execute"] = 3 * MaxTick
    /\ context.timing.scalar["time_post_execute"] = 2 * MaxTick + MaxTick + 1
    /\ context.timing.scalar["time_total"] = StageTimeSum(context.timing)

\* post_execute alone has run, twice
C29_WitnessRepeated ==
    /\ frame = Idle
    /\ calls = 2
    /\ outcome.call = "post_execute"
    /\ context.timing.has \cap {TimeKey(s) : s \in Stages} = {"time_post_execute"}
    /\ context.timing.scalar["time_total"] = context.timing.scalar["time_post_execute"]
    /\ context.timing.scalar["time_total"] > 0

\* ------------------------------------------------------------------- C30
\* C30: when a stage timer exits, time_<stage> is the sum of
\* time_<stage>_per_task plus time_<stage>_bundle_overhead, with the overhead
\* the timer computed and with an overhead the body had stored
C30_StageTimeIsPerTaskPlusOverhead ==
    [][\A stage \in Stages : TimerExits(stage) =>
          /\ {TimeKey(stage), OverheadKey(stage)} \subseteq context'.timing.has
          /\ context'.timing.scalar[TimeKey(stage)]
                = SeqSum(PerTaskOf(context'.timing, stage))
                     + context'.timing.scalar[OverheadKey(stage)]]_vars

\* the body looped and stored an overhead of its own
C30_Witness ==
    /\ frame = Idle
    /\ outcome.call = "post_execute"
    /\ outcome.result = "returned"
    /\ context.timing.per_task["post_execute"] = <<MaxTick, MaxTick>>
    /\ context.timing.scalar["time_post_execute_bundle_overhead"] = MaxTick + 1
    /\ context.timing.scalar["time_post_execute"] = 2 * MaxTick + MaxTick + 1

\* the body looped and the timer computed the overhead
C30_WitnessComputed ==
    /\ frame = Idle
    /\ outcome.call = "pre_execute"
    /\ context.timing.per_task["pre_execute"] = <<MaxTick, MaxTick>>
    /\ context.timing.scalar["time_pre_execute_bundle_overhead"] = MaxTick
    /\ context.timing.scalar["time_pre_execute"] = 3 * MaxTick

\* the body never looped
C30_WitnessNoLoop ==
    /\ frame = Idle
    /\ outcome.call = "pre_execute"
    /\ PerTaskKey("pre_execute") \notin context.timing.has
    /\ context.timing.scalar["time_pre_execute_bundle_overhead"] = MaxTick
    /\ context.timing.scalar["time_pre_execute"] = MaxTick

\* ------------------------------------------ claims on the timing write-back
\* the rows the write-back of a decorated execute() has saved
WrittenBack(id) == "time_total" \in Task[id].timing.set
TaskTimeSum(row) ==
    row.timing.time_pre_execute_task + row.timing.time_execute_task
       + row.timing.time_post_execute_task

\* C31: on every task row the timing write-back has saved, the three
\* per-task stage times add up to the row's time_total
C31_TaskTimesSumToTotal ==
    \A id \in DOMAIN Task :
        WrittenBack(id) => TaskTimeSum(Task[id]) = Task[id].timing.scalar["time_total"]

\* a row written back after three stages that each spent time outside their
\* loops: its time_total holds the overheads, its per-task times do not
C31_WitnessOverheadInTotal ==
    /\ outcome.call = "execute"
    /\ outcome.writeback = "ok"
    /\ \E id \in DOMAIN Task :
          /\ WrittenBack(id)
          /\ TaskTimeSum(Task[id]) = 0
          /\ Task[id].timing.scalar["time_total"] = 3 * MaxTick

\* ------------------------------------------------------------------- C34
\* the non-bundled plain parameters that were given a string
PlainStrings ==
    {n \in Supplied : ~cls[n].bundled /\ cls[n].class = "Parameter"
                         /\ kwargs[n].t = "str"}
\* the batch size is what it is with a number in place of the string
SameSizeWithoutString(n) ==
    LET r == parse_parameters(cls, [kwargs EXCEPT ![n] = IntValue])
    IN r.exc = "" /\ r.bundle_size = parsed.bundle_size
WholeOnEveryTask(n) ==
    \A i \in 1..Len(context.tasks) : Task[context.tasks[i]].parameters[n] = kwargs[n]

\* C34: a string given to a non-bundled plain parameter is one value: it
\* does not enter the batch size, and every task of the batch has the whole
\* string in its parameters, whatever the length of the string
C34_StringIsAtomic ==
    \A n \in PlainStrings :
        /\ constructed = "ok" => SameSizeWithoutString(n)
        /\ Built => WholeOnEveryTask(n)

\* C34 for a string whose length is not the batch size, and for a batch of one
C34_HoldsForOtherLengths ==
    \A n \in PlainStrings :
        /\ constructed = "ok" => SameSizeWithoutString(n)
        /\ (Built /\ (parsed.bundle_size = 1 \/ Len(kwargs[n].v) # parsed.bundle_size))
              => WholeOnEveryTask(n)

\* a string of two characters in a batch of two: each task has one character
C34_WitnessStringSplit ==
    /\ Built
    /\ parsed.bundle_size = 2
    /\ "b" \in PlainStrings
    /\ kwargs["b"] = StrOf(2)
    /\ Task[context.tasks[1]].parameters["b"] = [t |-> "str", v |-> <<97>>]
    /\ Task[context.tasks[2]].parameters["b"] = [t |-> "str", v |-> <<98>>]

\* ------------------------------------------------------------------- C35
\* C35: every instance that is constructed has bundle_size >= 1, and a
\* context that was built holds at least one task
C35_BundleSizeAtLeastOne ==
    /\ constructed = "ok" => parsed.bundle_size >= 1
    /\ (Built /\ origin = "new") => Len(context.tasks) >= 1

\* C35 for instances none of whose sized parameters was given an empty list
C35_HoldsWithoutEmptyList ==
    (\A n \in SizedNonString : GivenLength(n) # 0) => C35_BundleSizeAtLeastOne

\* an empty list gives a batch of no task
C35_WitnessEmptyBatch ==
    /\ Built
    /\ origin = "new"
    /\ "a" \in SizedNonString
    /\ kwargs["a"] = ListOf(0)
    /\ parsed.bundle_size = 0
    /\ context.tasks = << >>
    /\ Task = << >>

\* ------------------------------------------------------------------- C32
\* a step that ends a decorated execute() whose write-back was attempted
WriteBackStep == frame.call = "execute" /\ outcome'.writeback # ""
EntryOf(timing, stage, i) ==
    IF PerTaskKey(stage) \in timing.has THEN timing.per_task[stage][i] ELSE 0
\* every per-task array there is has an entry for every task
ArraysReach(timing, n) ==
    \A stage \in Stages :
        PerTaskKey(stage) \in timing.has => Len(timing.per_task[stage]) >= n
RowReconciled(row, timing, i) ==
    /\ row.timing.time_pre_execute_task = EntryOf(timing, "pre_execute", i)
    /\ row.timing.time_execute_task = EntryOf(timing, "execute", i)
    /\ row.timing.time_post_execute_task = EntryOf(timing, "post_execute", i)
    /\ \A k \in timing.has \cap ScalarKeys :
          k \in row.timing.set /\ row.timing.scalar[k] = timing.scalar[k]

\* C32: the write-back gives the task at position i of the context entry i
\* of each per-task array (0 where a stage has none) and every scalar of the
\* timing map; it writes all tasks or none: when it fails, every row keeps
\* the timing values it had
C32_WriteBackPositionalAndAtomic ==
    [][WriteBackStep =>
          LET timing == context'.timing
              tasks == context'.tasks
          IN /\ outcome'.writeback = "ok" <=> ArraysReach(timing, Len(tasks))
             /\ IF outcome'.writeback = "ok"
                THEN \A i \in 1..Len(tasks) :
                        RowReconciled(Task'[tasks[i]], timing, i)
                ELSE \A id \in DOMAIN Task : Task'[id].timing = Task[id].timing]_vars

\* two tasks written with different times of their own
C32_Witness ==
    /\ outcome.call = "execute"
    /\ outcome.writeback = "ok"
    /\ Len(context.tasks) = 2
    /\ Task[context.tasks[1]].timing.time_execute_task = 2 * MaxTick
    /\ Task[context.tasks[2]].timing.time_execute_task = MaxTick
    /\ Task[context.tasks[1]].timing.time_pre_execute_task = 0
    /\ Task[context.tasks[1]].timing.scalar["time_total"] = context.timing.scalar["time_total"]

\* the write-back failed at the second task: the first Task object has its
\* new values, and no row has any
C32_WitnessNothingWritten ==
    /\ outcome.call = "execute"
    /\ outcome.writeback = "IndexError"
    /\ Len(context.tasks) = 2
    /\ "time_execute_task" \in taskObj[context.tasks[1]].timing.set
    /\ \A id \in DOMAIN Task : Task[id].timing = NoTaskTiming

\* ------------------------------------------------------------------- C33
\* a step in which a stage body runs one loop over iterable() to its end
CompleteLoop ==
    /\ frame.call # ""
    /\ frame' # Idle
    /\ frame'.loops = frame.loops + 1
\* the tasks of the context are in the order of their creation, and the
\* iterable lists them in that order with the parameters persisted on them
IterableInCreationOrder(ctx, rows) ==
    /\ Len(ctx.iterable) = Len(ctx.tasks)
    /\ \A i \in 1..Len(ctx.tasks) :
          /\ ctx.iterable[i].task = ctx.tasks[i]
          /\ ctx.iterable[i].parameters = rows[ctx.tasks[i]].parameters
          /\ \A j \in 1..Len(ctx.tasks) : i < j => ctx.tasks[i] < ctx.tasks[j]

\* C33: iterable() yields the tasks in creation order and adds the time
\* spent on the i-th of them to entry i of time_<stage>_per_task: after a
\* complete loop the array has one entry per task of the context, each the
\* entry before (0 if there was none) plus the time of that item
C33_PerTaskTimesByPosition ==
    [][CompleteLoop =>
          LET stage == frame.stage
              before == PerTaskOf(context.timing, stage)
              after == context'.timing.per_task[stage]
              n == Len(context'.tasks)
          IN /\ IterableInCreationOrder(context', Task')
             /\ PerTaskKey(stage) \in context'.timing.has
             /\ Len(after) = n
             /\ \E t \in 0..(MaxTick + 1) :
                   /\ frame'.iter_time = frame.iter_time + n * t
                   /\ \A i \in 1..n :
                         after[i] = (IF i <= Len(before) THEN before[i] ELSE 0) + t]_vars

\* a stage has looped in two attempts: still one entry per task
C33_Witness ==
    /\ frame.call = "post_execute"
    /\ frame.loops = 1
    /\ Len(context.tasks) = 2
    /\ context.timing.per_task["post_execute"] = <<2 * MaxTick, 2 * MaxTick>>
    /\ IterableInCreationOrder(context, Task)

\* ------------------------------------------------------------------- C36
\* C36: whatever builds, failed or not, and calls were made on the first
\* instance, the store holds no more Task rows than its bundle_size
C36_NoMoreTasksThanBundleSize ==
    (constructed = "ok" /\ origin = "new") => Len(Task) <= parsed.bundle_size

\* a build that failed after all its writes but the last, and its retry:
\* twice bundle_size tasks, half of them in no context
C36_WitnessRetriedBuild ==
    /\ Built
    /\ origin = "new"
    /\ parsed.bundle_size = 2
    /\ Len(Task) = 4
    /\ context.tasks = <<3, 4>>
    /\ Cardinality(LinkedTo(1)) = 1

\* ------------------------------------------------------------------- C37
\* a step that is a direct update_status call with the default filter on an
\* instance with a bundle
BundledUpdateStep ==
    /\ UpdateStep
    /\ ContextBundle(context) # 0
    /\ ~outcome'.tasks_where.given
    /\ outcome'.description \in KnownStatuses

\* C37: after an update_status call with the default filter on an instance
\* with a bundle, returned or failed, the stored status of the bundle is the
\* stored status of each of its tasks, and the Bundle object has the status
\* of the Bundle row
C37_BundleAndTasksAgree ==
    [][BundledUpdateStep =>
          LET b == context.bundle
          IN /\ \A id \in TasksBefore : Task'[id].status = Bundle'[b].status
             /\ bundleObj'[b].status = Bundle'[b].status]_vars

\* C37 for the calls during which the store does not fail
C37_HoldsWithoutStoreFailure ==
    [][(BundledUpdateStep /\ outcome'.store = "") =>
          LET b == context.bundle
          IN /\ \A id \in TasksBefore : Task'[id].status = Bundle'[b].status
             /\ bundleObj'[b].status = Bundle'[b].status]_vars

\* the Bundle object always has the status of its row, store failure or not
C37_HoldsForBundleObject ==
    [][BundledUpdateStep =>
          bundleObj'[context.bundle].status = Bundle'[context.bundle].status]_vars

\* the task update failed after the bundle update: the bundle is completed,
\* its tasks are not
C37_WitnessBundleAhead ==
    /\ outcome.call = "update_status"
    /\ outcome.store # ""
    /\ context.bundle # 0
    /\ Bundle[context.bundle].status = "completed"
    /\ context.tasks # << >>
    /\ \A id \in RangeOf(context.tasks) : Task[id].status = "created"


\* ------------------------------------------------------------------- C38
\* a step made by an instance that from_task or from_bundle returned
RehydratedStep == origin \in {"from_task", "from_bundle"} /\ origin' = origin

\* the rows that are not those the instance was made from are as they were
OtherRowsUntouched ==
    /\ \A id \in DOMAIN Task :
          id \notin RangeOf(context.tasks) => Task'[id] = Task[id]
    /\ \A b \in DOMAIN Bundle : b # context.bundle => Bundle'[b] = Bundle[b]

\* C38: no call on an instance made by from_task or from_bundle (execute,
\* the stages, iterable, get_or_create_context, and the bodies they run)
\* adds a Task, Bundle or link row or changes the tasks and bundle of the
\* context, and status and timing are written to no row but those the
\* instance was made from
C38_RehydratedReusesRows ==
    [][RehydratedStep =>
          /\ Len(Task') = Len(Task)
          /\ Len(Bundle') = Len(Bundle)
          /\ TaskBundle' = TaskBundle
          /\ context'.tasks = context.tasks
          /\ context'.bundle = context.bundle
          /\ OtherRowsUntouched]_vars

\* an instance made by from_bundle ran execute(): its two rows are completed
\* and hold the times of the run, and the store has those two tasks only
C38_Witness ==
    /\ origin = "from_bundle"
    /\ outcome.call = "execute"
    /\ outcome.result = "returned"
    /\ outcome.writeback = "ok"
    /\ Len(Task) = 2
    /\ Len(Bundle) = 1
    /\ context.tasks = <<1, 2>>
    /\ \A id \in {1, 2} :
          /\ Task[id].status = "completed"
          /\ WrittenBack(id)
          /\ Task[id].timing.time_execute_task = MaxTick

\* an instance made by from_task of the second task of a bundle ran
\* execute(): that row alone is completed and timed
C38_WitnessFromTask ==
    /\ origin = "from_task"
    /\ outcome.call = "execute"
    /\ outcome.result = "returned"
    /\ context.tasks = <<2>>
    /\ Len(Task) = 2
    /\ Len(Bundle) = 1
    /\ Task[2].status = "completed"
    /\ WrittenBack(2)
    /\ Task[1].status = "created"
    /\ ~WrittenBack(1)
    /\ Bundle[1].status = "created"


\* ------------------------------------------------------------------- C39
\* from_bundle returns an instance made from the bundle of the context that
\* the first instance, of a batch of more than one task, built
RoundTripStep ==
    /\ origin = "new"
    /\ Built
    /\ parsed.bundle_size > 1
    /\ origin' = "from_bundle"
    /\ context'.bundle = context.bundle

PerTaskNonNegative(timing, stage) ==
    \A i \in 1..Len(PerTaskOf(timing, stage)) : PerTaskOf(timing, stage)[i] >= 0

\* C40: when a stage timer exits, first attempt at the stage or not, the
\* stage's time_<stage>_bundle_overhead is zero or more and so is every
\* entry of its time_<stage>_per_task
C40_TimesNonNegative ==
    [][\A stage \in Stages :
          TimerExits(stage) =>
             /\ TimeOf(context'.timing, OverheadKey(stage)) >= 0
             /\ PerTaskNonNegative(context'.timing, stage)]_vars

\* the per-task entries are zero or more at every timer exit
C40_HoldsForPerTask ==
    [][\A stage \in Stages :
          TimerExits(stage) => PerTaskNonNegative(context'.timing, stage)]_vars

\* the overhead is zero or more at the exit of a stage whose per-task times
\* are those of this attempt
C40_HoldsWithoutResidue ==
    [][\A stage \in Stages :
          (TimerExits(stage)
             /\ SeqSum(PerTaskOf(context.timing, stage)) = frame.iter_time)
             => TimeOf(context'.timing, OverheadKey(stage)) >= 0]_vars

\* pre_execute looped and raised, ran again without a loop and returned: its
\* overhead is the time of the second body less the loop of the first
C40_WitnessNegativeOverhead ==
    /\ calls = 2
    /\ frame = Idle
    /\ outcome.call = "pre_execute"
    /\ outcome.result = "returned"
    /\ TimeOf(context.timing, TimeKey("pre_execute")) = MaxTick
    /\ TimeOf(context.timing, OverheadKey("pre_execute")) = - MaxTick

====
